---------------------------- MODULE Spec2Model ----------------------------
(***************************************************************************)
(* A model of ridgenative's Lambda Runtime API client: the invocation loop *)
(* (start / startStreaming), next, handleInvoke / handleInvokeStreaming,   *)
(* post / postStreaming / reportFailure, the fault reporter of error.go    *)
(* and the streaming response writer.                                      *)
(*                                                                         *)
(* Go values are records; a byte is [byte |-> n]; a JSON document is a     *)
(* record of its members; a header value that the code parses is a         *)
(* sequence of one-character strings.                                      *)
(***************************************************************************)
EXTENDS Integers, Sequences, FiniteSets, TLC

(***************************************************************************)
(* Bounds of the exploration.                                              *)
(***************************************************************************)
\* invocations the control plane hands out in one run of the loop
MaxInvokes == 2
\* the clock runs from 0 to MaxTime milliseconds
MaxTime == 2
\* response-writer calls one streaming handler makes before it returns
MaxOps == 2
\* the same, when the handler task of one invocation is explored on its own
MaxStreamOps == 4

(***************************************************************************)
(* Program constants.                                                      *)
(***************************************************************************)
StatusOK == 200
StatusAccepted == 202
\* cap(rw.prelude): the sniffing window of the streaming writer
PreludeCap == 512
\* the number of bytes http.DetectContentType looks at
sniffLen == 512
\* bufio.NewWriter's default size (bufio.defaultBufSize)
BufSize == 4096

contentTypeJSON == "application/json"
contentTypeHTTPIntegrationResponse == "application/vnd.awslambda.http-integration-response"

VARIABLES
  mode,        \* "buffered" (client.start) or "streaming" (client.startStreaming)
  pc,          \* position of the loop: next, handle, handler, post, exit
  invoke,      \* the *invoke returned by the last successful next()
  now,         \* wall clock, milliseconds since the epoch
  child,       \* the execution scope handed to the handler
  envTraceID,  \* the process environment variable _X_AMZN_TRACE_ID
  invokeErr,   \* handleInvoke's local invokeErr (the envelope being reported)
  req,         \* the POST request in flight
  posts,       \* history: every POST made, with the control plane's answer
  polled,      \* history: the ids of the invocations next() returned
  lastPoll,    \* history: the control plane's answer to the last GET next
  hresult,     \* history: how the handler call of the current invocation ended
  hval,        \* history: the value the handler returned as error or panicked with
  hcalls,      \* history: ids of the invocations the handler was called for
  ret,         \* history: what the last handleInvoke(Streaming) returned
  loopErr      \* why start / startStreaming returned ("" while it runs)


VARIABLES
  rw,          \* the streamingResponseWriter of the handler task
  hpc,         \* the handler task: idle, run, closed
  outq,        \* pipe writes of the handler task the POST side has not read yet
  pipe,        \* the io.Pipe between handler task and POST
  ecr,         \* the errorCapturingReader wrapped around the pipe's read end
  sink,        \* what the control plane has received of the streamed body
  written,     \* history: the bytes the handler passed to Write, in order
  hops,        \* history: the calls the handler made on the writer, in order
  opsLeft      \* response-writer calls the handler may still make

streamVars == <<rw, hpc, outq, pipe, ecr, sink, written, hops, opsLeft>>

VARIABLES
  event,       \* the *request the handler function was called with
  areq         \* what the event adapter made of it: a request, an error, a fault

adapterVars == <<event, areq>>

VARIABLES
  brw,         \* the responseWriter lambdaHandler serves the request with
  bresp,       \* the *response lambdaResponseV1 / lambdaResponseV2 made of it
  chdr,        \* the response header handed to the content classifier
  cbin,        \* what the content classifier said of it
  env,         \* the process environment ListenAndServe and Start read
  call,        \* the entry point the program calls, with its InvokeMode
  startRet     \* what the entry point did: none, loop, http, or the error returned

VARIABLES
  fbuf,        \* the lambdaFunction's builder, buffer and out, kept between invocations
  cbuffer,     \* the runtimeAPIClient's buffer, kept between polls
  srw,         \* the responseWriter that writes into the lambdaFunction's buffers
  serve        \* the invocation lambdaHandler is serving with them

auxVars == <<brw, bresp, chdr, cbin, env, call, startRet,
              fbuf, cbuffer, srw, serve>>

vars == <<mode, pc, invoke, now, child, envTraceID, invokeErr, req,
          posts, polled, lastPoll, hresult, hval, hcalls, ret, loopErr,
          rw, hpc, outq, pipe, ecr, sink, written, hops, opsLeft, event, areq,
          brw, bresp, chdr, cbin, env, call, startRet,
              fbuf, cbuffer, srw, serve>>

(***************************************************************************)
(* Go values: errors and panic values.                                     *)
(***************************************************************************)
\* reflect.Type of a value: its kind, its name ("" for a pointer type) and,
\* for a pointer, the name of the element type.
StringType == [kind |-> "string", name |-> "string", elem |-> ""]
PtrTo(n) == [kind |-> "ptr", name |-> "", elem |-> n]
Named(k, n) == [kind |-> k, name |-> n, elem |-> ""]

\* A Go value: its dynamic type and the text fmt.Sprint (or Error()) yields.
GoValue(t, s) == [rtype |-> t, text |-> s]

myError == GoValue(PtrTo("myError"), "some errors")
boom == GoValue(StringType, "boom")
codeError == GoValue(Named("int", "codeError"), "code 7")
errDeadlineExceeded == GoValue(Named("struct", "deadlineExceededError"), "context deadline exceeded")
errSyntax == GoValue(PtrTo("SyntaxError"), "unexpected end of JSON input")
errNumSyntax == GoValue(PtrTo("wrapError"), "ridgenative: failed to parse deadline")
errV2 == GoValue(PtrTo("errorString"), "ridgenative: invalid request")
errEOF == GoValue(PtrTo("errorString"), "EOF")

\* what a handler may return as an ordinary error
HandlerErrors == {myError, codeError}
\* what a handler may panic with
PanicValues == {boom, myError, codeError}
\* what a handler that waited for ctx.Done() returns
CancelErrors == {errDeadlineExceeded, GoValue(PtrTo("myError"), "context deadline exceeded")}

\* the frames runtime.Callers reports inside the deferred recover
PanicStack == <<[path |-> "ridgenative/invoke.go", line |-> 18, label |-> "callBytesHandlerFunc.func1"]>>

NoErr == [none |-> TRUE]

\* getErrorType (error.go)
getErrorType(err) ==
  IF err.rtype.kind = "ptr" THEN err.rtype.elem ELSE err.rtype.name

\* getPanicInfo (error.go): the message and the stack of a panic
getPanicInfo(value) == [Message |-> value.text, StackTrace |-> PanicStack]

\* an *invokeResponseError
IsEnvelope(v) == "ShouldExit" \in DOMAIN v

\* a fault reporter that does not mark the envelope as fatal
lambdaPanicResponse_noExit(err) ==
  IF IsEnvelope(err) THEN err
  ELSE [Message    |-> getPanicInfo(err).Message,
        Type       |-> getErrorType(err),
        StackTrace |-> getPanicInfo(err).StackTrace,
        ShouldExit |-> FALSE]

\* lambdaPanicResponse (error.go)
lambdaPanicResponse(err) ==
  IF IsEnvelope(err) THEN err
  ELSE [Message    |-> getPanicInfo(err).Message,
        Type       |-> getErrorType(err),
        StackTrace |-> getPanicInfo(err).StackTrace,
        ShouldExit |-> TRUE]

\* an error reporter that marks every envelope as fatal
lambdaErrorResponse_exit(invokeError) ==
  IF IsEnvelope(invokeError) THEN invokeError
  ELSE [Message    |-> invokeError.text,
        Type       |-> getErrorType(invokeError),
        StackTrace |-> <<>>,
        ShouldExit |-> TRUE]

\* an error reporter that wraps an envelope like any other error
lambdaErrorResponse_rewrap(invokeError) ==
  [Message    |-> IF IsEnvelope(invokeError) THEN invokeError.Message ELSE invokeError.text,
   Type       |-> IF IsEnvelope(invokeError) THEN "invokeResponseError"
                  ELSE getErrorType(invokeError),
   StackTrace |-> <<>>,
   ShouldExit |-> FALSE]

\* lambdaErrorResponse (error.go)
lambdaErrorResponse(invokeError) ==
  IF IsEnvelope(invokeError) THEN invokeError
  ELSE [Message    |-> invokeError.text,
        Type       |-> getErrorType(invokeError),
        StackTrace |-> <<>>,
        ShouldExit |-> FALSE]

\* json.Marshal of an *invokeResponseError: ShouldExit is not serialized,
\* stackTrace is omitted when empty.
MarshalError(e) ==
  IF e.StackTrace = <<>>
  THEN [errorMessage |-> e.Message, errorType |-> e.Type]
  ELSE [errorMessage |-> e.Message, errorType |-> e.Type, stackTrace |-> e.StackTrace]

\* base64.StdEncoding.EncodeToString of a marshalled document
Base64(doc) == [base64 |-> doc]

(***************************************************************************)
(* The deadline header.                                                    *)
(***************************************************************************)
Digits == <<"0", "1", "2", "3", "4", "5", "6", "7", "8", "9">>
IsDigit(c) == \E i \in 1..10 : Digits[i] = c
DigitVal(c) == (CHOOSE i \in 1..10 : Digits[i] = c) - 1

RECURSIVE DigitsVal(_, _)
DigitsVal(s, acc) ==
  IF s = <<>> THEN acc ELSE DigitsVal(Tail(s), acc * 10 + DigitVal(Head(s)))

\* strconv.ParseInt(s, 10, 64)
ParseInt(s) ==
  LET signed == s # <<>> /\ Head(s) \in {"+", "-"}
      body   == IF signed THEN Tail(s) ELSE s
  IN IF body = <<>> \/ \E i \in 1..Len(body) : ~IsDigit(body[i])
     THEN [ok |-> FALSE, val |-> 0]
     ELSE [ok |-> TRUE,
           val |-> IF signed /\ Head(s) = "-" THEN 0 - DigitsVal(body, 0)
                   ELSE DigitsVal(body, 0)]

\* the header read as seconds (time.Unix) instead of milliseconds
UnixMilli_seconds(ms) == ms * 1000

\* time.UnixMilli(ms), on the model's millisecond clock
UnixMilli(ms) == ms

\* a parseDeadline that drops strconv's error
parseDeadline_ignoresErr(inv) ==
  [ok |-> TRUE, deadline |-> UnixMilli(ParseInt(inv.deadlineMs).val)]

\* parseDeadline (runtime_api_client.go)
parseDeadline(inv) ==
  LET r == ParseInt(inv.deadlineMs)
  IN IF r.ok THEN [ok |-> TRUE, deadline |-> UnixMilli(r.val)]
     ELSE [ok |-> FALSE, deadline |-> 0]

\* context.WithDeadline(ctx, d) under a parent that is never cancelled:
\* already done when d has passed.
WithDeadline(d, t) == [active |-> TRUE, deadline |-> d, done |-> d <= t, trace |-> ""]
\* context.WithValue(child, "x-amzn-trace-id", traceID)
WithValue(c, traceID) == [c EXCEPT !.trace = traceID]
NoChild == [active |-> FALSE, deadline |-> 0, done |-> TRUE, trace |-> ""]
\* the deferred cancel()
Cancel(c) == [c EXCEPT !.active = FALSE, !.done = TRUE]


(***************************************************************************)
(* What the control plane and the handler may do.                          *)
(***************************************************************************)
\* Lambda-Runtime-Deadline-Ms: absent, not a number, or milliseconds
DeadlineHeaders == {<<>>, <<"1", "s">>, <<"1">>, <<"1", "0">>}
\* Lambda-Runtime-Trace-Id ("" when absent)
TraceIDs == {"", "Root=1-a"}
\* the body of the poll response
Payloads == {[json |-> "malformed"], [json |-> "object"]}
\* answers to GET next: a transport error, or a status (and a body that may
\* fail to arrive)
PollAnswers ==
  {[err |-> TRUE, status |-> 0, bodyErr |-> FALSE]}
    \cup {[err |-> FALSE, status |-> s, bodyErr |-> FALSE] : s \in {200, 201, 404, 500}}
    \cup {[err |-> FALSE, status |-> 200, bodyErr |-> TRUE]}
\* answers to a POST: a transport error or a status
PostAnswers ==
  {[err |-> TRUE, status |-> 0]}
    \cup {[err |-> FALSE, status |-> s] : s \in {200, 202, 500}}
\* what a buffered handler returns on success
Responses == {[statusCode |-> 200, body |-> "hello"]}

NoInvoke == [id |-> 0, payload |-> [json |-> "none"], deadlineMs |-> <<>>, traceId |-> ""]
NoReq == [none |-> TRUE]
NoOutcome == [kind |-> "none"]

(***************************************************************************)
(* runtimeAPIClient: the decisions of next, handleInvoke, post.            *)
(***************************************************************************)
\* a next that does not look at the status code
next_ignoresStatus(ans, inv) ==
  IF ans.err THEN [ok |-> FALSE, invoke |-> NoInvoke]
  ELSE IF ans.bodyErr THEN [ok |-> FALSE, invoke |-> NoInvoke]
  ELSE [ok |-> TRUE, invoke |-> inv]

\* runtimeAPIClient.next: the invoke, or an error
next(ans, inv) ==
  IF ans.err THEN [ok |-> FALSE, invoke |-> NoInvoke]
  ELSE IF ans.status # StatusOK THEN [ok |-> FALSE, invoke |-> NoInvoke]
  ELSE IF ans.bodyErr THEN [ok |-> FALSE, invoke |-> NoInvoke]
  ELSE [ok |-> TRUE, invoke |-> inv]

\* json.Unmarshal(payload, &req)
Unmarshal(payload) == payload.json = "object"

\* json.Marshal(resp) of a *response
MarshalResponse(resp) == [statusCode |-> resp.statusCode, body |-> resp.body]

\* callBytesHandlerFunc: out is how h ended (not consulted when the payload
\* does not decode, since h is not called then).
callBytesHandlerFunc(payload, out) ==
  IF ~Unmarshal(payload) THEN [response |-> NoReq, err |-> errSyntax]
  ELSE IF out.kind = "panic" THEN [response |-> NoReq, err |-> lambdaPanicResponse(out.v)]
  ELSE IF out.kind = "error" THEN [response |-> NoReq, err |-> out.v]
  ELSE [response |-> MarshalResponse(out.v), err |-> NoErr]

\* a POST bound to the scope the handler ran under
postScope_child == "child"

\* the scope handleInvoke and handleInvokeStreaming hand to post, reportFailure
\* and postStreaming: ctx, the scope of the loop, not the deadline-bound child
postScope == "ctx"

\* a failure report sent to the response endpoint
reportFailure_toResponse(inv, ie, site) ==
  [path        |-> [id |-> inv.id, ep |-> "response"],
   contentType |-> contentTypeJSON,
   body        |-> MarshalError(ie),
   site        |-> site,
   streaming   |-> FALSE,
   scope       |-> postScope]

\* the request reportFailure hands to post
reportFailure(inv, ie, site) ==
  [path        |-> [id |-> inv.id, ep |-> "error"],
   contentType |-> contentTypeJSON,
   body        |-> MarshalError(ie),
   site        |-> site,
   streaming   |-> FALSE,
   scope       |-> postScope]

\* the request handleInvoke hands to post on success
postResponse(inv, response) ==
  [path        |-> [id |-> inv.id, ep |-> "response"],
   contentType |-> contentTypeJSON,
   body        |-> response,
   site        |-> "response",
   streaming   |-> FALSE,
   scope       |-> postScope]

\* the request handleInvokeStreaming hands to postStreaming
postStreamingRequest(inv) ==
  [path        |-> [id |-> inv.id, ep |-> "response"],
   contentType |-> contentTypeHTTPIntegrationResponse,
   body        |-> [stream |-> TRUE],
   site        |-> "response",
   streaming   |-> TRUE,
   scope       |-> postScope]

\* a post that takes every 2xx status for success
post_any2xx(ans) ==
  IF ans.err THEN "err"
  ELSE IF ans.status < 200 \/ ans.status > 299 THEN "err"
  ELSE "nil"

\* runtimeAPIClient.post / postStreaming: nil only for 202 Accepted
post(ans) ==
  IF ans.err THEN "err"
  ELSE IF ans.status # StatusAccepted THEN "err"
  ELSE "nil"

\* a handleInvoke that drops the error of its POST
handleReturn_dropsPostError(site, postErr, ie) ==
  IF site = "failure" /\ ie.ShouldExit THEN "err"
  ELSE "nil"

\* a handleInvoke that gives up after every reported failure
handleReturn_anyFailure(site, postErr, ie) ==
  IF postErr = "err" THEN "err"
  ELSE IF site = "failure" THEN "err"
  ELSE "nil"

\* what handleInvoke / handleInvokeStreaming returns once its POST is answered
handleReturn(site, postErr, ie) ==
  IF postErr = "err" THEN "err"
  ELSE IF site = "failure" /\ ie.ShouldExit THEN "err"
  ELSE "nil"

\* how the control plane's answer is recorded in the history
PostResult(ans) ==
  IF ans.err THEN "failed"
  ELSE IF ans.status = StatusAccepted THEN "accepted"
  ELSE "rejected"

(***************************************************************************)
(* The streaming response writer (streamingResponseWriter) and the         *)
(* bufio.Writer in front of the pipe.  A method is an operator from the    *)
(* writer's state to its new state and the writes it makes on the pipe, in *)
(* order; the handler task stays blocked until the POST side has read      *)
(* them (io.Pipe is a rendezvous).                                         *)
(***************************************************************************)
Byte(n) == [byte |-> n]
Bytes(ns) == [i \in 1..Len(ns) |-> Byte(ns[i])]
Repeat(n, k) == [i \in 1..k |-> Byte(n)]
\* a marshalled JSON document inside a byte stream (one element of the stream)
Block(doc) == [json |-> doc]

RECURSIVE Concat(_)
Concat(ss) == IF ss = <<>> THEN <<>> ELSE Head(ss) \o Concat(Tail(ss))

\* a delimiter one byte short
Delimiter_short == Repeat(0, 7)

\* the "\x00\x00\x00\x00\x00\x00\x00\x00" WriteHeader writes after the header block
Delimiter == Repeat(0, 8)

\* bufio.Writer.Write / WriteString
RECURSIVE BufWrite(_, _)
BufWrite(buf, p) ==
  IF Len(p) > BufSize - Len(buf)
  THEN IF buf = <<>>
       THEN [buf |-> <<>>, out |-> <<p>>]
       ELSE LET k    == BufSize - Len(buf)
                rest == BufWrite(<<>>, SubSeq(p, k + 1, Len(p)))
            IN [buf |-> rest.buf, out |-> <<buf \o SubSeq(p, 1, k)>> \o rest.out]
  ELSE [buf |-> buf \o p, out |-> <<>>]

\* bufio.Writer.Flush
BufFlush(buf) ==
  IF buf = <<>> THEN [buf |-> <<>>, out |-> <<>>]
  ELSE [buf |-> <<>>, out |-> <<buf>>]

\* http.DetectContentType, for the signatures the model's data can carry
PNGSignature == Bytes(<<137, 80, 78, 71, 13, 10, 26, 10>>)
HasPrefix(s, pre) == Len(s) >= Len(pre) /\ SubSeq(s, 1, Len(pre)) = pre
IsBinaryByte(b) ==
  b.byte <= 8 \/ b.byte = 11 \/ (b.byte >= 14 /\ b.byte <= 26) \/ (b.byte >= 28 /\ b.byte <= 31)
\* "<!DOCTYPE HTML", the first of the HTML signatures
HTMLSignature == <<60, 33, 68, 79, 67, 84, 89, 80, 69, 32, 72, 84, 77, 76>>
\* the index of the first byte that is not white space (Len + 1 without one)
IsWS(b) == b.byte \in {9, 10, 12, 13, 32}
FirstNonWS(data) ==
  IF \A i \in 1..Len(data) : IsWS(data[i]) THEN Len(data) + 1
  ELSE CHOOSE i \in 1..Len(data) : ~IsWS(data[i]) /\ \A j \in 1..(i - 1) : IsWS(data[j])
\* htmlSig.match: letters compared without case, then a space or ">"
MatchHTML(data) ==
  LET d == SubSeq(data, FirstNonWS(data), Len(data))
  IN /\ Len(d) >= Len(HTMLSignature) + 1
     /\ \A i \in 1..Len(HTMLSignature) :
          \/ d[i].byte = HTMLSignature[i]
          \/ HTMLSignature[i] >= 65 /\ HTMLSignature[i] <= 90
               /\ d[i].byte = HTMLSignature[i] + 32
     /\ d[Len(HTMLSignature) + 1].byte \in {32, 62}
\* only the first sniffLen bytes are looked at
Sniffed(data) == IF Len(data) > sniffLen THEN SubSeq(data, 1, sniffLen) ELSE data
DetectContentType(data) ==
  LET d == Sniffed(data)
  IN IF MatchHTML(d) THEN "text/html; charset=utf-8"
     ELSE IF HasPrefix(d, PNGSignature) THEN "image/png"
     ELSE IF \E i \in 1..Len(d) : IsBinaryByte(d[i]) THEN "application/octet-stream"
     ELSE "text/plain; charset=utf-8"

\* a writer that takes every header for one with a Content-Type
hasContentType_always(w) == TRUE

\* streamingResponseWriter.hasContentType
hasContentType(w) == w.header.ct # ""

\* json.Marshal of the streamingResponse WriteHeader builds
MarshalStreamingResponse(code, header) ==
  IF header.cookies = <<>>
  THEN [statusCode |-> code, headers |-> [ContentType |-> header.ct]]
  ELSE [statusCode |-> code, headers |-> [ContentType |-> header.ct],
        cookies |-> header.cookies]

\* newStreamingResponseWriter
newStreamingResponseWriter ==
  [wroteHeader |-> FALSE, header |-> [ct |-> "", cookies |-> <<>>],
   statusCode |-> 0, err |-> FALSE, prelude |-> <<>>, buf |-> <<>>]

\* a WriteHeader that writes a header block each time it is called
WriteHeader_again(w, code) ==
  IF w.err THEN [rw |-> w, out |-> <<>>]
  ELSE LET header == IF hasContentType(w) THEN w.header
                     ELSE [w.header EXCEPT !.ct = DetectContentType(w.prelude)]
           w1 == BufWrite(w.buf, <<Block(MarshalStreamingResponse(code, header))>>)
           w2 == BufWrite(w1.buf, Delimiter)
           w3 == IF Len(w.prelude) # 0 THEN BufWrite(w2.buf, w.prelude)
                 ELSE [buf |-> w2.buf, out |-> <<>>]
           fl == BufFlush(w3.buf)
       IN [rw  |-> [w EXCEPT !.wroteHeader = TRUE, !.statusCode = code,
                             !.header = header, !.buf = fl.buf],
           out |-> w1.out \o w2.out \o w3.out \o fl.out]

\* a WriteHeader that leaves the header block in the buffer
WriteHeader_noFlush(w, code) ==
  IF w.wroteHeader \/ w.err THEN [rw |-> w, out |-> <<>>]
  ELSE LET header == IF hasContentType(w) THEN w.header
                     ELSE [w.header EXCEPT !.ct = DetectContentType(w.prelude)]
           w1 == BufWrite(w.buf, <<Block(MarshalStreamingResponse(code, header))>>)
           w2 == BufWrite(w1.buf, Delimiter)
           w3 == IF Len(w.prelude) # 0 THEN BufWrite(w2.buf, w.prelude)
                 ELSE [buf |-> w2.buf, out |-> <<>>]
       IN [rw  |-> [w EXCEPT !.wroteHeader = TRUE, !.statusCode = code,
                             !.header = header, !.buf = w3.buf],
           out |-> w1.out \o w2.out \o w3.out]

\* streamingResponseWriter.WriteHeader
WriteHeader(w, code) ==
  IF w.wroteHeader \/ w.err THEN [rw |-> w, out |-> <<>>]
  ELSE LET header == IF hasContentType(w) THEN w.header
                     ELSE [w.header EXCEPT !.ct = DetectContentType(w.prelude)]
           w1 == BufWrite(w.buf, <<Block(MarshalStreamingResponse(code, header))>>)
           w2 == BufWrite(w1.buf, Delimiter)
           w3 == IF Len(w.prelude) # 0 THEN BufWrite(w2.buf, w.prelude)
                 ELSE [buf |-> w2.buf, out |-> <<>>]
           fl == BufFlush(w3.buf)
       IN [rw  |-> [w EXCEPT !.wroteHeader = TRUE, !.statusCode = code,
                             !.header = header, !.buf = fl.buf],
           out |-> w1.out \o w2.out \o w3.out \o fl.out]

\* a Write that flushes the buffer into the pipe before it returns
Write_unbuffered(w, data) ==
  LET r ==
         IF w.wroteHeader
         THEN LET b == BufWrite(w.buf, data)
              IN [rw |-> [w EXCEPT !.buf = b.buf], out |-> b.out, n |-> Len(data)]
         ELSE IF hasContentType(w)
         THEN LET h == WriteHeader(w, StatusOK)
                  b == BufWrite(h.rw.buf, data)
              IN [rw |-> [h.rw EXCEPT !.buf = b.buf], out |-> h.out \o b.out, n |-> Len(data)]
         ELSE LET room  == PreludeCap - Len(w.prelude)
                  data0 == IF Len(w.prelude) + Len(data) > PreludeCap
                           THEN SubSeq(data, 1, room) ELSE data
                  m     == Len(data0)
                  w0    == [w EXCEPT !.prelude = w.prelude \o data0]
                  h     == IF Len(w0.prelude) = PreludeCap THEN WriteHeader(w0, StatusOK)
                           ELSE [rw |-> w0, out |-> <<>>]
                  rest  == SubSeq(data, m + 1, Len(data))
              IN IF Len(rest) = 0 THEN [rw |-> h.rw, out |-> h.out, n |-> m]
                 ELSE LET b == BufWrite(h.rw.buf, rest)
                      IN [rw |-> [h.rw EXCEPT !.buf = b.buf], out |-> h.out \o b.out,
                          n |-> Len(rest) + m]
      fl == IF r.rw.wroteHeader THEN BufFlush(r.rw.buf) ELSE [buf |-> r.rw.buf, out |-> <<>>]
  IN [rw |-> [r.rw EXCEPT !.buf = fl.buf], out |-> r.out \o fl.out, n |-> r.n]

\* streamingResponseWriter.Write: n is the count it returns
Write(w, data) ==
  IF w.wroteHeader
  THEN LET b == BufWrite(w.buf, data)
       IN [rw |-> [w EXCEPT !.buf = b.buf], out |-> b.out, n |-> Len(data)]
  ELSE IF hasContentType(w)
  THEN LET h == WriteHeader(w, StatusOK)
           b == BufWrite(h.rw.buf, data)
       IN [rw |-> [h.rw EXCEPT !.buf = b.buf], out |-> h.out \o b.out, n |-> Len(data)]
  ELSE LET room  == PreludeCap - Len(w.prelude)
           data0 == IF Len(w.prelude) + Len(data) > PreludeCap
                    THEN SubSeq(data, 1, room) ELSE data
           m     == Len(data0)
           w0    == [w EXCEPT !.prelude = w.prelude \o data0]
           h     == IF Len(w0.prelude) = PreludeCap THEN WriteHeader(w0, StatusOK)
                    ELSE [rw |-> w0, out |-> <<>>]
           rest  == SubSeq(data, m + 1, Len(data))
       IN IF Len(rest) = 0 THEN [rw |-> h.rw, out |-> h.out, n |-> m]
          ELSE LET b == BufWrite(h.rw.buf, rest)
               IN [rw |-> [h.rw EXCEPT !.buf = b.buf], out |-> h.out \o b.out,
                   n |-> Len(rest) + m]

\* a Flush that writes the header block but leaves the buffered body alone
Flush_headerOnly(w) ==
  IF ~w.wroteHeader THEN WriteHeader(w, StatusOK) ELSE [rw |-> w, out |-> <<>>]

\* streamingResponseWriter.Flush
Flush(w) ==
  LET h  == IF ~w.wroteHeader THEN WriteHeader(w, StatusOK) ELSE [rw |-> w, out |-> <<>>]
      fl == BufFlush(h.rw.buf)
  IN [rw |-> [h.rw EXCEPT !.buf = fl.buf], out |-> h.out \o fl.out]

\* streamingResponseWriter.closeWithError up to w.CloseWithError: the
\* writes it makes; the pipe is then closed with err (nil: end of stream).
closeWithError(w, err) ==
  LET h  == IF ~w.wroteHeader THEN WriteHeader(w, StatusOK) ELSE [rw |-> w, out |-> <<>>]
      fl == BufFlush(h.rw.buf)
  IN [rw |-> [h.rw EXCEPT !.buf = fl.buf], out |-> h.out \o fl.out, err |-> err]

\* io.PipeWriter.CloseWithError: a nil error reads as io.EOF
CloseWithError(err) == IF err = NoErr THEN errEOF ELSE err

\* errors.Is(err, io.EOF)
IsEOF(err) == err = errEOF

EmptyTrailer == [keys |-> {}]
\* the trailers errorCapturingReader.Read sets for a captured error
ErrorTrailer(err) ==
  [keys      |-> {"Lambda-Runtime-Function-Error-Type", "Lambda-Runtime-Function-Error-Body"},
   errorType |-> lambdaErrorResponse(err).Type,
   errorBody |-> Base64(MarshalError(lambdaErrorResponse(err)))]

\* errorCapturingReader.Read: r is the reader's state, inner what the
\* pipe's Read returns (data, err).
Read(r, inner) ==
  IF r.err # NoErr THEN [ecr |-> r, data |-> <<>>, err |-> r.err]
  ELSE IF inner.err # NoErr /\ IsEOF(inner.err)
  THEN [ecr  |-> [err |-> inner.err, trailer |-> ErrorTrailer(inner.err)],
        data |-> inner.data, err |-> inner.err]
  ELSE [ecr |-> r, data |-> inner.data, err |-> inner.err]

\* io.PipeReader.Read: the pending write, or the close error
PipeRead(q, p) ==
  IF q # <<>> THEN [data |-> Head(q), err |-> NoErr]
  ELSE [data |-> <<>>, err |-> p.werr]

\* callHandlerFuncSteaming: like callBytesHandlerFunc, but a handler that
\* returns nil has started the handler task and the pipe's read end is the
\* response.
callHandlerFuncSteaming(payload, out) ==
  IF ~Unmarshal(payload) THEN [response |-> NoReq, err |-> errSyntax]
  ELSE IF out.kind = "panic" THEN [response |-> NoReq, err |-> lambdaPanicResponse(out.v)]
  ELSE IF out.kind = "error" THEN [response |-> NoReq, err |-> out.v]
  ELSE [response |-> [stream |-> TRUE], err |-> NoErr]

(***************************************************************************)
(* The state after newRuntimeAPIClient, before the loop's first poll.      *)
(***************************************************************************)
NoRW == newStreamingResponseWriter
NoPipe == [wclosed |-> FALSE, werr |-> NoErr, rclosed |-> FALSE]
\* newErrorCapturingReader
newErrorCapturingReader == [err |-> NoErr, trailer |-> EmptyTrailer]
\* no event decoded, nothing adapted
NoEvent == [none |-> TRUE]
NoResult == [kind |-> "none"]
NoSink == [units |-> <<>>, ended |-> FALSE, trailer |-> EmptyTrailer]
\* no buffered response writer, no rendered response, no classification
NoWriter == [none |-> TRUE]
NoResponse == [none |-> TRUE]
NoHeader == [none |-> TRUE]
NoClass == [none |-> TRUE]
\* the loop was entered directly: no environment read, no entry point called
NoEnv == [none |-> TRUE]
NoCall == [none |-> TRUE]
\* newRuntimeAPIClient("") : the base URL has no host, every request fails
NoHost == env # NoEnv /\ env.runtimeAPI = ""

\* newLambdaFunction: its buffers are empty, out is nil
newLambdaFunction == [builder |-> <<>>, buffer |-> <<>>, out |-> <<>>]
\* the responseWriter of lambdaFunction.newResponseWriter: w is nil
newSharedWriter ==
  [w |-> "nil", isBinary |-> FALSE, wroteHeader |-> FALSE, header |-> <<>>,
   statusCode |-> 0]
\* http.NoBody as the request body
NoSharedBody == [kind |-> "NoBody", n |-> 0, str |-> <<>>]
NoFirst == [set |-> FALSE, f |-> newLambdaFunction, rw |-> newSharedWriter]
\* no invocation is served yet; doc is the body of the last poll response
NoServe ==
  [phase |-> "poll", n |-> 0, doc |-> <<>>, body |-> NoSharedBody, didRead |-> FALSE,
   read |-> <<>>, first |-> NoFirst, late |-> FALSE, rendered |-> FALSE,
   failed |-> FALSE]
ReuseIdle ==
  /\ fbuf = newLambdaFunction
  /\ cbuffer = <<>>
  /\ srw = newSharedWriter
  /\ serve = NoServe

\* the variables of response capture, classifier and entry point at rest
InitAux ==
  /\ brw = NoWriter
  /\ bresp = NoResponse
  /\ chdr = NoHeader
  /\ cbin = NoClass
  /\ env = NoEnv
  /\ call = NoCall
  /\ startRet = "loop"
  /\ ReuseIdle

InitLoop ==
  /\ pc = "next"
  /\ invoke = NoInvoke
  /\ now = 0
  /\ child = NoChild
  /\ envTraceID = ""
  /\ invokeErr = NoErr
  /\ req = NoReq
  /\ posts = <<>>
  /\ polled = <<>>
  /\ lastPoll = [n |-> 0, err |-> FALSE, status |-> 0, bodyErr |-> FALSE]
  /\ hresult = "none"
  /\ hval = NoErr
  /\ hcalls = <<>>
  /\ ret = "none"
  /\ loopErr = ""
  /\ rw = NoRW
  /\ hpc = "idle"
  /\ outq = <<>>
  /\ pipe = NoPipe
  /\ ecr = newErrorCapturingReader
  /\ sink = NoSink
  /\ written = <<>>
  /\ hops = <<>>

Init ==
  /\ mode \in {"buffered", "streaming"}
  /\ opsLeft = MaxOps
  /\ InitLoop
  /\ event = NoEvent
  /\ areq = NoResult
  /\ InitAux

(***************************************************************************)
(* The invocation loop.                                                    *)
(***************************************************************************)
\* start / startStreaming: c.next(ctx); the loop returns when it fails.
Poll ==
  /\ pc = "next"
  /\ Len(polled) < MaxInvokes
  /\ \E ans \in PollAnswers, d \in DeadlineHeaders, t \in TraceIDs, p \in Payloads :
       LET r == next(ans, [id |-> Len(polled) + 1, payload |-> p,
                           deadlineMs |-> d, traceId |-> t])
       IN /\ NoHost => ans.err
          /\ lastPoll' = [n |-> lastPoll.n + 1, err |-> ans.err, status |-> ans.status,
                           bodyErr |-> ans.bodyErr]
          /\ IF r.ok
             THEN /\ invoke' = r.invoke
                  /\ polled' = Append(polled, r.invoke.id)
                  /\ pc' = "handle"
                  /\ loopErr' = loopErr
             ELSE /\ pc' = "exit"
                  /\ loopErr' = "next"
                  /\ UNCHANGED <<invoke, polled>>
  /\ hresult' = "none"
  /\ hval' = NoErr
  /\ ret' = "none"
  /\ UNCHANGED <<mode, now, child, envTraceID, invokeErr, req, posts, hcalls>>
  /\ UNCHANGED streamVars
  /\ UNCHANGED adapterVars
  /\ UNCHANGED auxVars

\* c.post / c.postStreaming up to httpClient.Do: the request is in flight.
SendPost(r) ==
  /\ req' = r
  /\ posts' = Append(posts, [id |-> r.path.id, ep |-> r.path.ep, result |-> "inflight"])
  /\ pc' = "post"

\* a Get of a header the control plane does not send
traceIDOf_wrongKey(inv) == ""

\* invoke.headers.Get(headerTraceID)
traceIDOf(inv) == inv.traceId

\* the call of the handler function in the loop's mode
CallHandler(payload, out) ==
  IF mode = "buffered" THEN callBytesHandlerFunc(payload, out)
  ELSE callHandlerFuncSteaming(payload, out)

\* handleInvoke / handleInvokeStreaming from its entry to the call of h:
\* parseDeadline, the deadline-bound scope, the trace id, the decoding of
\* the payload.
Setup ==
  LET dl == parseDeadline(invoke)
      c  == WithValue(WithDeadline(dl.deadline, now), traceIDOf(invoke))
  IN IF ~dl.ok
     THEN /\ invokeErr' = lambdaErrorResponse(errNumSyntax)
          /\ SendPost(reportFailure(invoke, lambdaErrorResponse(errNumSyntax), "deadline"))
          /\ hresult' = "deadline"
          /\ UNCHANGED <<child, envTraceID, hcalls>>
     ELSE /\ child' = c
          /\ envTraceID' = traceIDOf(invoke)
          /\ IF ~Unmarshal(invoke.payload)
             THEN LET ie == lambdaErrorResponse(CallHandler(invoke.payload, NoOutcome).err)
                  IN /\ invokeErr' = ie
                     /\ SendPost(reportFailure(invoke, ie, "failure"))
                     /\ hresult' = "decode"
                     /\ hcalls' = hcalls
             ELSE /\ pc' = "handler"
                  /\ hcalls' = Append(hcalls, [id |-> invoke.id, hdr |-> invoke.traceId,
                                                ctx |-> c.trace, env |-> envTraceID'])
                  /\ hresult' = "running"
                  /\ UNCHANGED <<invokeErr, req, posts>>

HandleInvoke ==
  /\ pc = "handle"
  /\ mode = "buffered"
  /\ Setup
  /\ UNCHANGED <<mode, invoke, now, polled, lastPoll, hval, ret, loopErr>>
  /\ UNCHANGED streamVars
  /\ UNCHANGED adapterVars
  /\ UNCHANGED auxVars

HandleInvokeStreaming ==
  /\ pc = "handle"
  /\ mode = "streaming"
  /\ Setup
  /\ UNCHANGED <<mode, invoke, now, polled, lastPoll, hval, ret, loopErr>>
  /\ UNCHANGED streamVars
  /\ UNCHANGED adapterVars
  /\ UNCHANGED auxVars

\* the rest of handleInvoke / handleInvokeStreaming once the handler
\* function has returned, up to the POST being in flight
Finish(result, how, v) ==
  /\ hresult' = how
  /\ hval' = v
  /\ IF result.err # NoErr
     THEN /\ invokeErr' = lambdaErrorResponse(result.err)
          /\ SendPost(reportFailure(invoke, lambdaErrorResponse(result.err), "failure"))
     ELSE /\ invokeErr' = invokeErr
          /\ IF mode = "buffered"
             THEN SendPost(postResponse(invoke, result.response))
             ELSE SendPost(postStreamingRequest(invoke))
  /\ UNCHANGED <<mode, invoke, now, child, envTraceID, polled, lastPoll, hcalls, ret, loopErr>>

\* h returns a response (buffered mode)
HandlerReturns ==
  /\ pc = "handler" /\ mode = "buffered"
  /\ \E resp \in Responses :
       Finish(CallHandler(invoke.payload, [kind |-> "return", v |-> resp]), "ok", NoErr)
  /\ UNCHANGED streamVars
  /\ UNCHANGED adapterVars
  /\ UNCHANGED auxVars

\* h starts the handler task and returns nil (streaming mode):
\* lambdaHandlerStreaming's go func, then postStreaming reads the pipe.
HandlerStarts ==
  /\ pc = "handler" /\ mode = "streaming"
  /\ Finish(CallHandler(invoke.payload, [kind |-> "started"]), "started", NoErr)
  /\ rw' = newStreamingResponseWriter
  /\ hpc' = "run"
  /\ outq' = <<>>
  /\ pipe' = NoPipe
  /\ ecr' = newErrorCapturingReader
  /\ sink' = NoSink
  /\ written' = <<>>
  /\ hops' = <<>>
  /\ opsLeft' = MaxOps
  /\ UNCHANGED adapterVars
  /\ UNCHANGED auxVars

\* h returns an ordinary error
HandlerFails ==
  /\ pc = "handler"
  /\ \E e \in HandlerErrors :
       Finish(CallHandler(invoke.payload, [kind |-> "error", v |-> e]), "error", e)
  /\ UNCHANGED streamVars
  /\ UNCHANGED adapterVars
  /\ UNCHANGED auxVars

\* h panics
HandlerPanics ==
  /\ pc = "handler"
  /\ \E v \in PanicValues :
       Finish(CallHandler(invoke.payload, [kind |-> "panic", v |-> v]), "panic", v)
  /\ UNCHANGED streamVars
  /\ UNCHANGED adapterVars
  /\ UNCHANGED auxVars

\* h waited for ctx.Done() and returns a cancellation-derived error
HandlerCancelled ==
  /\ pc = "handler"
  /\ child.done
  /\ \E e \in CancelErrors :
       Finish(CallHandler(invoke.payload, [kind |-> "error", v |-> e]), "cancel", e)
  /\ UNCHANGED streamVars
  /\ UNCHANGED adapterVars
  /\ UNCHANGED auxVars

\* a millisecond passes; the scope's timer fires at its deadline
Tick ==
  /\ pc # "exit"
  /\ now < MaxTime
  /\ now' = now + 1
  /\ child' = IF child.active /\ child.deadline <= now + 1
              THEN [child EXCEPT !.done = TRUE] ELSE child
  /\ UNCHANGED <<mode, pc, invoke, envTraceID, invokeErr, req, posts, polled,
                 lastPoll, hresult, hval, hcalls, ret, loopErr>>
  /\ UNCHANGED streamVars
  /\ UNCHANGED adapterVars
  /\ UNCHANGED auxVars

(***************************************************************************)
(* The handler task of streaming mode: f.mux.ServeHTTP(rw, r) and the      *)
(* deferred close.  It makes its next call only when the POST side has     *)
(* read every write of the previous one.                                   *)
(***************************************************************************)
\* one call of the handler on its response writer
Call(op, data) == [op |-> op, data |-> data]

ContentTypes == {"application/json"}
StatusCodes == {201}
Big == Repeat(120, PreludeCap)
Chunks == {Bytes(<<104, 105>>), Bytes(<<0, 255>>), Big}

\* a handler task that does not wait for its pipe write to be read
HandlerReady_unblocked == pc = "post" /\ req.streaming /\ hpc = "run"

\* the handler task can make its next call: its last pipe write has returned
HandlerReady == pc = "post" /\ req.streaming /\ hpc = "run" /\ outq = <<>>

loopUnchanged ==
  UNCHANGED <<mode, pc, invoke, now, child, envTraceID, invokeErr, req, posts,
              polled, lastPoll, hresult, hval, hcalls, ret, loopErr, event, areq,
              brw, bresp, chdr, cbin, env, call, startRet,
              fbuf, cbuffer, srw, serve>>

\* rw.Header().Set("Content-Type", ct)
HSetContentType ==
  /\ HandlerReady /\ opsLeft > 0
  /\ \E ct \in ContentTypes : rw' = [rw EXCEPT !.header.ct = ct]
  /\ hops' = Append(hops, Call("Header", <<>>))
  /\ opsLeft' = opsLeft - 1
  /\ UNCHANGED <<hpc, outq, pipe, ecr, sink, written>>
  /\ loopUnchanged

\* rw.WriteHeader(code)
HWriteHeader ==
  /\ HandlerReady /\ opsLeft > 0
  /\ \E code \in StatusCodes :
       LET r == WriteHeader(rw, code) IN rw' = r.rw /\ outq' = r.out
  /\ hops' = Append(hops, Call("WriteHeader", <<>>))
  /\ opsLeft' = opsLeft - 1
  /\ UNCHANGED <<hpc, pipe, ecr, sink, written>>
  /\ loopUnchanged

\* rw.Write(data)
HWrite ==
  /\ HandlerReady /\ opsLeft > 0
  /\ \E data \in Chunks :
       LET r == Write(rw, data)
       IN /\ rw' = r.rw
          /\ outq' = r.out
          /\ written' = written \o SubSeq(data, 1, r.n)
          /\ hops' = Append(hops, Call("Write", data))
  /\ opsLeft' = opsLeft - 1
  /\ UNCHANGED <<hpc, pipe, ecr, sink>>
  /\ loopUnchanged

\* rw.Flush()
HFlush ==
  /\ HandlerReady /\ opsLeft > 0
  /\ LET r == Flush(rw) IN rw' = r.rw /\ outq' = r.out
  /\ hops' = Append(hops, Call("Flush", <<>>))
  /\ opsLeft' = opsLeft - 1
  /\ UNCHANGED <<hpc, pipe, ecr, sink, written>>
  /\ loopUnchanged

\* ServeHTTP returns: the deferred rw.close()
HReturn ==
  /\ HandlerReady
  /\ LET r == closeWithError(rw, NoErr)
     IN /\ rw' = r.rw
        /\ outq' = r.out
        /\ pipe' = [pipe EXCEPT !.wclosed = TRUE, !.werr = CloseWithError(r.err)]
  /\ hpc' = "closed"
  /\ hops' = Append(hops, Call("return", <<>>))
  /\ UNCHANGED <<ecr, sink, written, opsLeft>>
  /\ loopUnchanged

\* ServeHTTP panics: the deferred rw.closeWithError(lambdaPanicResponse(v))
HPanic ==
  /\ HandlerReady
  /\ \E v \in PanicValues :
       LET r == closeWithError(rw, lambdaPanicResponse(v))
       IN /\ rw' = r.rw
          /\ outq' = r.out
          /\ pipe' = [pipe EXCEPT !.wclosed = TRUE, !.werr = CloseWithError(r.err)]
  /\ hpc' = "closed"
  /\ hops' = Append(hops, Call("panic", <<>>))
  /\ UNCHANGED <<ecr, sink, written, opsLeft>>
  /\ loopUnchanged

(***************************************************************************)
(* postStreaming: httpClient.Do reads the request body through the         *)
(* errorCapturingReader and sends it on, with the trailers, when the body  *)
(* ends.                                                                   *)
(***************************************************************************)
EndStream ==
  /\ rw' = NoRW /\ hpc' = "idle" /\ outq' = <<>> /\ pipe' = NoPipe
  /\ ecr' = newErrorCapturingReader /\ sink' = NoSink /\ written' = <<>>
  /\ hops' = <<>>
  /\ opsLeft' = opsLeft

\* one Read of the body by the transport
BodyRead ==
  /\ pc = "post" /\ req.streaming /\ ~sink.ended
  /\ outq # <<>> \/ pipe.wclosed
  /\ LET r == Read(ecr, PipeRead(outq, pipe))
     IN IF r.err = NoErr
        THEN \* data: sent on as it was read
             /\ sink' = [sink EXCEPT !.units = Append(sink.units, r.data)]
             /\ outq' = Tail(outq)
             /\ ecr' = r.ecr
             /\ UNCHANGED <<rw, hpc, pipe, written, hops, opsLeft>>
             /\ loopUnchanged
        ELSE IF IsEOF(r.err)
        THEN \* the body ends: the trailers follow it
             /\ sink' = [sink EXCEPT !.ended = TRUE, !.trailer = r.ecr.trailer]
             /\ ecr' = r.ecr
             /\ UNCHANGED <<rw, hpc, outq, pipe, written, hops, opsLeft>>
             /\ loopUnchanged
        ELSE \* the body fails: the request is aborted, Do returns the
             \* error, postStreaming and handleInvokeStreaming return it
             /\ posts' = [posts EXCEPT ![Len(posts)].result = "failed"]
             /\ ret' = handleReturn(req.site, "err", invokeErr)
             /\ pc' = "exit"
             /\ loopErr' = "handle"
             /\ child' = Cancel(child)
             /\ invokeErr' = NoErr
             /\ sink' = sink
             /\ ecr' = r.ecr
             /\ UNCHANGED <<rw, hpc, outq, pipe, written, hops, opsLeft>>
             /\ UNCHANGED <<mode, invoke, now, envTraceID, req, polled, lastPoll,
                            hresult, hval, hcalls, event, areq>>
             /\ UNCHANGED auxVars

\* ctx.Done() of the scope a request was made with; the loop's scope is
\* never cancelled
ScopeDone(scope) == IF scope = "child" THEN child.done ELSE FALSE
\* c.httpClient.Do(req): under a scope that is done the request fails,
\* whatever the control plane would answer
DoAnswers ==
  IF ScopeDone(req.scope) THEN {[err |-> TRUE, status |-> 0]} ELSE PostAnswers

\* The control plane answers the POST (a streamed one once its body has
\* ended); post returns, handleInvoke returns (its deferred cancel runs),
\* and the loop goes on or returns.
PostReply ==
  /\ pc = "post"
  /\ req.streaming => sink.ended
  /\ \E ans \in DoAnswers :
       LET r == handleReturn(req.site, post(ans), invokeErr)
       IN /\ posts' = [posts EXCEPT ![Len(posts)].result = PostResult(ans)]
          /\ ret' = r
          /\ pc' = IF r = "err" THEN "exit" ELSE "next"
          /\ loopErr' = IF r = "err" THEN "handle" ELSE loopErr
  /\ child' = Cancel(child)
  /\ invokeErr' = NoErr
  /\ IF req.streaming THEN EndStream ELSE UNCHANGED streamVars
  /\ UNCHANGED <<mode, invoke, now, envTraceID, req, polled, lastPoll, hresult,
                 hval, hcalls, event, areq>>
  /\ UNCHANGED auxVars

Next ==
  \/ Poll
  \/ HandleInvoke
  \/ HandleInvokeStreaming
  \/ HandlerReturns
  \/ HandlerStarts
  \/ HandlerFails
  \/ HandlerPanics
  \/ HandlerCancelled
  \/ Tick
  \/ HSetContentType
  \/ HWriteHeader
  \/ HWrite
  \/ HFlush
  \/ HReturn
  \/ HPanic
  \/ BodyRead
  \/ PostReply

Spec == Init /\ [][Next]_vars

(***************************************************************************)
(* One streamed invocation on its own: the state handleInvokeStreaming is  *)
(* in when lambdaHandlerStreaming has started the handler task and         *)
(* postStreaming has handed the pipe's read end to the HTTP client; then   *)
(* the handler task and the reads of the body.                             *)
(***************************************************************************)
StreamInvoke ==
  [id |-> 1, payload |-> [json |-> "object"], deadlineMs |-> <<"1", "0">>,
   traceId |-> "Root=1-a"]

InitStream ==
  /\ mode = "streaming"
  /\ pc = "post"
  /\ invoke = StreamInvoke
  /\ now = 0
  /\ child = WithValue(WithDeadline(parseDeadline(StreamInvoke).deadline, 0),
                       traceIDOf(StreamInvoke))
  /\ envTraceID = traceIDOf(StreamInvoke)
  /\ invokeErr = NoErr
  /\ req = postStreamingRequest(StreamInvoke)
  /\ posts = <<[id |-> 1, ep |-> "response", result |-> "inflight"]>>
  /\ polled = <<1>>
  /\ lastPoll = [n |-> 1, err |-> FALSE, status |-> StatusOK, bodyErr |-> FALSE]
  /\ hresult = "started"
  /\ hval = NoErr
  /\ hcalls = <<[id |-> 1, hdr |-> StreamInvoke.traceId,
                 ctx |-> traceIDOf(StreamInvoke), env |-> traceIDOf(StreamInvoke)]>>
  /\ ret = "none"
  /\ loopErr = ""
  /\ rw = newStreamingResponseWriter
  /\ hpc = "run"
  /\ outq = <<>>
  /\ pipe = NoPipe
  /\ ecr = newErrorCapturingReader
  /\ sink = NoSink
  /\ written = <<>>
  /\ hops = <<>>
  /\ opsLeft = MaxStreamOps
  /\ event = NoEvent
  /\ areq = NoResult
  /\ InitAux

NextStream ==
  \/ HSetContentType
  \/ HWriteHeader
  \/ HWrite
  \/ HFlush
  \/ HReturn
  \/ HPanic
  \/ BodyRead

SpecStream == InitStream /\ [][NextStream]_vars

(***************************************************************************)
(* The event adapter: httpRequestV1, httpRequestV2, decodeBody.  Strings   *)
(* are sequences of one-character strings, maps are functions whose        *)
(* domain is the set of keys; a Go map is ranged over in an order the      *)
(* runtime chooses.                                                        *)
(***************************************************************************)
LowerLetters ==
  <<"a", "b", "c", "d", "e", "f", "g", "h", "i", "j", "k", "l", "m",
    "n", "o", "p", "q", "r", "s", "t", "u", "v", "w", "x", "y", "z">>
UpperLetters ==
  <<"A", "B", "C", "D", "E", "F", "G", "H", "I", "J", "K", "L", "M",
    "N", "O", "P", "Q", "R", "S", "T", "U", "V", "W", "X", "Y", "Z">>
IndexIn(c, letters) ==
  IF \E i \in 1..Len(letters) : letters[i] = c
  THEN CHOOSE i \in 1..Len(letters) : letters[i] = c
  ELSE 0
UpperOf == [c \in {LowerLetters[i] : i \in 1..26} |-> UpperLetters[IndexIn(c, LowerLetters)]]
LowerOf == [c \in {UpperLetters[i] : i \in 1..26} |-> LowerLetters[IndexIn(c, UpperLetters)]]
ToUpper(c) == IF c \in DOMAIN UpperOf THEN UpperOf[c] ELSE c
ToLower(c) == IF c \in DOMAIN LowerOf THEN LowerOf[c] ELSE c

\* textproto.CanonicalMIMEHeaderKey: the first letter and every letter after
\* a hyphen in upper case, the others in lower case; a key with a space in
\* it is returned as it is.
CanonicalMIMEHeaderKey(k) ==
  IF \E i \in 1..Len(k) : k[i] = " " THEN k
  ELSE [i \in 1..Len(k) |->
          IF i = 1 \/ k[i - 1] = "-" THEN ToUpper(k[i]) ELSE ToLower(k[i])]

\* strings.HasPrefix
HasStringPrefix(str, pre) ==
  Len(str) >= Len(pre) /\ SubSeq(str, 1, Len(pre)) = pre

\* strings.Join
RECURSIVE Join(_, _)
Join(elems, sep) ==
  IF elems = <<>> THEN <<>>
  ELSE IF Len(elems) = 1 THEN elems[1]
  ELSE elems[1] \o sep \o Join(Tail(elems), sep)

\* a map with no entry, and m[k] = v on a map
EmptyMap == <<>>
MapSet(m, k, v) == [x \in DOMAIN m \cup {k} |-> IF x = k THEN v ELSE m[x]]
\* len(m)
MapLen(m) == Cardinality(DOMAIN m)

\* the orders in which `for k, v := range m` may visit the keys of m
RangeOrders(m) ==
  {o \in [1..MapLen(m) -> DOMAIN m] : \A i, j \in 1..MapLen(m) : o[i] = o[j] => i = j}

\* httpRequestV1: headers[textproto.CanonicalMIMEHeaderKey(k)] = v for the
\* keys of the multi-value map, in range order
RECURSIVE headersFromMulti(_, _, _)
headersFromMulti(headers, mv, order) ==
  IF order = <<>> THEN headers
  ELSE headersFromMulti(MapSet(headers, CanonicalMIMEHeaderKey(Head(order)), mv[Head(order)]),
                        mv, Tail(order))

\* httpRequestV1: headers[textproto.CanonicalMIMEHeaderKey(k)] = []string{v}
RECURSIVE headersFromSingle(_, _, _)
headersFromSingle(headers, h, order) ==
  IF order = <<>> THEN headers
  ELSE headersFromSingle(MapSet(headers, CanonicalMIMEHeaderKey(Head(order)), <<h[Head(order)]>>),
                         h, Tail(order))

\* http.Header.Set(k, v)
HeaderSet(headers, k, v) == MapSet(headers, CanonicalMIMEHeaderKey(k), <<v>>)

\* http.Header.Get(k): the first value, "" without one
HeaderGet(headers, k) ==
  IF CanonicalMIMEHeaderKey(k) \in DOMAIN headers
  THEN IF headers[CanonicalMIMEHeaderKey(k)] = <<>> THEN <<>>
       ELSE headers[CanonicalMIMEHeaderKey(k)][1]
  ELSE <<>>

\* httpRequestV2: headers.Set(k, v) for the keys of r.Headers, in range order
RECURSIVE headersSetAll(_, _, _)
headersSetAll(headers, h, order) ==
  IF order = <<>> THEN headers
  ELSE headersSetAll(HeaderSet(headers, Head(order), h[Head(order)]), h, Tail(order))

CookieKey == <<"C", "o", "o", "k", "i", "e">>
HostKey == <<"H", "o", "s", "t">>

\* cookies added to the Cookie entry of the headers map instead of replacing it
headersV2_addCookies(r, order) ==
  LET headers == headersSetAll(EmptyMap, r.headers, order)
  IN IF Len(r.cookies) > 0
     THEN MapSet(headers, CookieKey,
                 (IF CookieKey \in DOMAIN headers THEN headers[CookieKey] ELSE <<>>)
                   \o <<Join(r.cookies, <<";">>)>>)
     ELSE headers

\* httpRequestV2, "build headers" and "build cookies"
headersV2(r, order) ==
  LET headers == headersSetAll(EmptyMap, r.headers, order)
  IN IF Len(r.cookies) > 0 THEN HeaderSet(headers, CookieKey, Join(r.cookies, <<";">>))
     ELSE headers

\* httpRequestV1, "decode header"
headersV1(r, order) ==
  IF MapLen(r.multiValueHeaders) > 0
  THEN headersFromMulti(EmptyMap, r.multiValueHeaders, order)
  ELSE headersFromSingle(EmptyMap, r.headers, order)

\* url.QueryEscape, on the characters the model's keys and values are made of
QueryEscapeChar(c) ==
  CASE c = " " -> <<"+">>
    [] c = "&" -> <<"%", "2", "6">>
    [] c = "=" -> <<"%", "3", "D">>
    [] OTHER -> <<c>>
RECURSIVE QueryEscape(_)
QueryEscape(str) ==
  IF str = <<>> THEN <<>> ELSE QueryEscapeChar(Head(str)) \o QueryEscape(Tail(str))

\* the byte order of the characters keys are made of (sort.Strings)
ByteOrder == <<" ", "&", "=", "a", "b", "p", "q">>
RECURSIVE StringLess(_, _)
StringLess(a, b) ==
  IF b = <<>> THEN FALSE
  ELSE IF a = <<>> THEN TRUE
  ELSE IF Head(a) = Head(b) THEN StringLess(Tail(a), Tail(b))
  ELSE IndexIn(Head(a), ByteOrder) < IndexIn(Head(b), ByteOrder)
\* the keys of a map, sorted
SortedKeys(m) ==
  CHOOSE o \in RangeOrders(m) : \A i \in 1..(MapLen(m) - 1) : StringLess(o[i], o[i + 1])

\* url.Values.Encode: "k=v" for every value of every key, keys sorted,
\* values in their order, joined by "&"
RECURSIVE EncodePairs(_, _)
EncodePairs(k, vs) ==
  IF vs = <<>> THEN <<>>
  ELSE <<QueryEscape(k) \o <<"=">> \o QueryEscape(Head(vs))>> \o EncodePairs(k, Tail(vs))
RECURSIVE EncodeKeys(_, _)
EncodeKeys(values, keys) ==
  IF keys = <<>> THEN <<>>
  ELSE EncodePairs(Head(keys), values[Head(keys)]) \o EncodeKeys(values, Tail(keys))
Encode(values) == Join(EncodeKeys(values, SortedKeys(values)), <<"&">>)

\* a query that prefers the singular map
valuesV1_singularFirst(r) ==
  IF MapLen(r.queryStringParameters) > 0
  THEN [k \in DOMAIN r.queryStringParameters |-> <<r.queryStringParameters[k]>>]
  ELSE r.multiValueQueryStringParameters

\* httpRequestV1, "decode query string": nil when both maps are empty
valuesV1(r) ==
  IF MapLen(r.multiValueQueryStringParameters) > 0
  THEN r.multiValueQueryStringParameters
  ELSE IF MapLen(r.queryStringParameters) > 0
  THEN [k \in DOMAIN r.queryStringParameters |-> <<r.queryStringParameters[k]>>]
  ELSE EmptyMap

\* the hexadecimal digits, and the characters the model's escapes stand for
IsHex(c) == c \in {"0", "1", "2", "3", "4", "5", "6", "7", "8", "9",
                   "a", "b", "c", "d", "e", "f", "A", "B", "C", "D", "E", "F"}
HexChar(h, l) ==
  CASE <<h, l>> = <<"4", "1">> -> "A"
    [] <<h, l>> = <<"2", "0">> -> " "
    [] OTHER -> "?"

\* url.unescape of a path: "%XX" is one character, any other "%" an error
RECURSIVE Unescape(_)
Unescape(str) ==
  IF str = <<>> THEN [ok |-> TRUE, out |-> <<>>]
  ELSE IF Head(str) = "%"
  THEN IF Len(str) >= 3 /\ IsHex(str[2]) /\ IsHex(str[3])
       THEN LET rest == Unescape(SubSeq(str, 4, Len(str)))
            IN [ok |-> rest.ok, out |-> <<HexChar(str[2], str[3])>> \o rest.out]
       ELSE [ok |-> FALSE, out |-> <<>>]
  ELSE LET rest == Unescape(Tail(str))
       IN [ok |-> rest.ok, out |-> <<Head(str)>> \o rest.out]

\* url.Parse of a request-target without scheme and fragment: the part
\* before the first "?" is the path, unescaped, the part after it the raw
\* query
urlParse(uri) ==
  LET qs   == {i \in 1..Len(uri) : uri[i] = "?"}
      cut  == IF qs = {} THEN Len(uri) + 1 ELSE CHOOSE i \in qs : \A j \in qs : i <= j
      path == Unescape(SubSeq(uri, 1, cut - 1))
  IN [ok       |-> path.ok,
      Path     |-> path.out,
      RawQuery |-> SubSeq(uri, cut + 1, Len(uri))]

\* base64.StdEncoding: the value of a character of the alphabet, -1 for any
\* other character
B64Alphabet ==
  <<"A", "B", "C", "D", "E", "F", "G", "H", "I", "J", "K", "L", "M", "N", "O", "P",
    "Q", "R", "S", "T", "U", "V", "W", "X", "Y", "Z", "a", "b", "c", "d", "e", "f",
    "g", "h", "i", "j", "k", "l", "m", "n", "o", "p", "q", "r", "s", "t", "u", "v",
    "w", "x", "y", "z", "0", "1", "2", "3", "4", "5", "6", "7", "8", "9", "+", "/">>
B64Index == [c \in {B64Alphabet[i] : i \in 1..64} |-> IndexIn(c, B64Alphabet) - 1]
B64Val(c) == IF c \in DOMAIN B64Index THEN B64Index[c] ELSE 0 - 1

\* one quantum of four characters; padding is legal in the last one only
DecodeQuantum(q, last) ==
  LET v1 == B64Val(q[1])
      v2 == B64Val(q[2])
      v3 == B64Val(q[3])
      v4 == B64Val(q[4])
      b1 == (v1 * 4 + (v2 \div 16)) % 256
      b2 == ((v2 % 16) * 16 + (v3 \div 4)) % 256
      b3 == ((v3 % 4) * 64 + v4) % 256
  IN IF v1 < 0 \/ v2 < 0 THEN [ok |-> FALSE, bytes |-> <<>>]
     ELSE IF q[3] = "="
     THEN IF last /\ q[4] = "=" THEN [ok |-> TRUE, bytes |-> <<Byte(b1)>>]
          ELSE [ok |-> FALSE, bytes |-> <<>>]
     ELSE IF v3 < 0 THEN [ok |-> FALSE, bytes |-> <<>>]
     ELSE IF q[4] = "="
     THEN IF last THEN [ok |-> TRUE, bytes |-> <<Byte(b1), Byte(b2)>>]
          ELSE [ok |-> FALSE, bytes |-> <<>>]
     ELSE IF v4 < 0 THEN [ok |-> FALSE, bytes |-> <<>>]
     ELSE [ok |-> TRUE, bytes |-> <<Byte(b1), Byte(b2), Byte(b3)>>]

\* base64.StdEncoding.DecodeString
RECURSIVE DecodeString(_)
DecodeString(str) ==
  IF str = <<>> THEN [ok |-> TRUE, bytes |-> <<>>]
  ELSE IF Len(str) < 4 THEN [ok |-> FALSE, bytes |-> <<>>]
  ELSE LET q    == DecodeQuantum(SubSeq(str, 1, 4), Len(str) = 4)
           rest == DecodeString(SubSeq(str, 5, Len(str)))
       IN IF q.ok /\ rest.ok THEN [ok |-> TRUE, bytes |-> q.bytes \o rest.bytes]
          ELSE [ok |-> FALSE, bytes |-> <<>>]

\* len(s) of a Go string: its bytes in UTF-8
RECURSIVE ByteLen(_)
ByteLen(str) ==
  IF str = <<>> THEN 0
  ELSE (IF Head(str) = "e-acute" THEN 2 ELSE 1) + ByteLen(Tail(str))

errCorruptInput == GoValue(Named("int64", "CorruptInputError"), "illegal base64 data")
errURL == GoValue(PtrTo("Error"), "parse: invalid URL escape")
\* the value of the runtime panic of a nil pointer dereference
nilDereference ==
  GoValue(Named("string", "errorString"),
          "runtime error: invalid memory address or nil pointer dereference")

\* http.NoBody
NoBody == [kind |-> "NoBody"]

\* a decodeBody that reports the length of the encoded text
decodeBody_encodedLength(r) ==
  IF r.body = <<>> THEN [ok |-> TRUE, body |-> NoBody, contentLength |-> 0]
  ELSE IF r.isBase64Encoded
  THEN LET b == DecodeString(r.body)
       IN IF ~b.ok THEN [ok |-> FALSE, body |-> NoBody, contentLength |-> 0]
          ELSE [ok |-> TRUE, body |-> [kind |-> "bytes", bytes |-> b.bytes],
                contentLength |-> ByteLen(r.body)]
  ELSE [ok |-> TRUE, body |-> [kind |-> "string", str |-> r.body],
        contentLength |-> ByteLen(r.body)]

\* lambdaFunction.decodeBody
decodeBody(r) ==
  IF r.body = <<>> THEN [ok |-> TRUE, body |-> NoBody, contentLength |-> 0]
  ELSE IF r.isBase64Encoded
  THEN LET b == DecodeString(r.body)
       IN IF ~b.ok THEN [ok |-> FALSE, body |-> NoBody, contentLength |-> 0]
          ELSE [ok |-> TRUE, body |-> [kind |-> "bytes", bytes |-> b.bytes],
                contentLength |-> Len(b.bytes)]
  ELSE [ok |-> TRUE, body |-> [kind |-> "string", str |-> r.body],
        contentLength |-> ByteLen(r.body)]

\* isV2Request with the prefix test alone: "20" counts as version 2
isV2Request_prefixOnly(r) == HasStringPrefix(r.version, <<"2">>)

\* isV2Request
isV2Request(r) == r.version = <<"2">> \/ HasStringPrefix(r.version, <<"2", ".">>)

\* httpRequestV1; order is the range order of the header map it reads
httpRequestV1(r, order) ==
  LET headers == headersV1(r, order)
      values  == valuesV1(r)
      uri     == IF MapLen(values) > 0 THEN r.path \o <<"?">> \o Encode(values) ELSE r.path
      u       == urlParse(uri)
      b       == decodeBody(r)
  IN IF ~u.ok THEN [kind |-> "error", err |-> errURL]
     ELSE IF ~b.ok THEN [kind |-> "error", err |-> errCorruptInput]
     ELSE [kind          |-> "request",
           Method        |-> r.httpMethod,
           Header        |-> headers,
           RemoteAddr    |-> r.identitySourceIp,
           ContentLength |-> b.contentLength,
           Body          |-> b.body,
           RequestURI    |-> uri,
           URL           |-> [Path |-> u.Path, RawQuery |-> u.RawQuery],
           Host          |-> HeaderGet(headers, HostKey)]

\* httpRequestV2, "build uri": the string the URL is parsed from
uriV2(r) ==
  IF r.rawQueryString # <<>> THEN r.http.path \o <<"?">> \o r.rawQueryString
  ELSE r.http.path

\* a request-target taken from the decoded path
rawURIV2_decoded(r) ==
  IF r.rawQueryString # <<>> THEN r.http.path \o <<"?">> \o r.rawQueryString
  ELSE r.http.path

\* httpRequestV2, "build uri": the request-target
rawURIV2(r) ==
  IF r.rawQueryString # <<>> THEN r.rawPath \o <<"?">> \o r.rawQueryString
  ELSE r.rawPath

\* httpRequestV2; r.RequestContext.HTTP is a pointer, nil when the event has
\* no requestContext.http, and line 172 dereferences it
httpRequestV2(r, order) ==
  LET headers == headersV2(r, order)
      uri     == uriV2(r)
      rawURI  == rawURIV2(r)
      u       == urlParse(uri)
      b       == decodeBody(r)
  IN IF ~r.http.present THEN [kind |-> "fault", v |-> nilDereference]
     ELSE IF ~u.ok THEN [kind |-> "error", err |-> errURL]
     ELSE IF ~b.ok THEN [kind |-> "error", err |-> errCorruptInput]
     ELSE [kind          |-> "request",
           Method        |-> r.http.method,
           Header        |-> headers,
           RemoteAddr    |-> r.http.sourceIp,
           ContentLength |-> b.contentLength,
           Body          |-> b.body,
           RequestURI    |-> rawURI,
           URL           |-> [Path |-> u.Path, RawQuery |-> u.RawQuery],
           Host          |-> HeaderGet(headers, HostKey)]

\* lambdaHandler / lambdaHandlerStreaming as callBytesHandlerFunc sees it:
\* the adapter's error is returned, its fault unwinds, a request is served
lambdaHandler(res) ==
  CASE res.kind = "fault" -> [kind |-> "panic", v |-> res.v]
    [] res.kind = "error" -> [kind |-> "error", v |-> res.err]
    [] OTHER -> [kind |-> "return", v |-> [statusCode |-> 200, body |-> "hello"]]

(***************************************************************************)
(* The events the adapter is given.                                        *)
(***************************************************************************)
cookieLower == <<"c", "o", "o", "k", "i", "e">>
hostLower == <<"h", "o", "s", "t">>
xaLower == <<"x", "-", "a">>
val1 == <<"a", "=", "1">>
val2 == <<"b", "=", "2">>
valHost == <<"e", "x">>

MultiHeaderMaps ==
  {EmptyMap,
   xaLower :> <<val1, val2, val1>>,
   (cookieLower :> <<val1>>) @@ (CookieKey :> <<val2, val2>>),
   (hostLower :> <<valHost>>) @@ (xaLower :> <<>>)}
HeaderMaps ==
  {EmptyMap,
   hostLower :> valHost,
   (cookieLower :> val1) @@ (xaLower :> val2),
   (xaLower :> val1) @@ (<<"X", "-", "A">> :> val2)}
MultiQueryMaps ==
  {EmptyMap,
   (<<"q">> :> << <<"b">>, <<"a", " ">>, <<"b">> >>) @@ (<<"p">> :> << <<"&">> >>),
   <<"q">> :> <<>>}
QueryMaps == {EmptyMap, <<"q">> :> <<"a">>}
Paths == {<<"/">>, <<"/", "a">>, <<"/", "%", "4", "1">>, <<"/", "%", "z">>}
Bodies ==
  {<<>>, <<"Q", "Q", "=", "=">>, <<"Q", "B", "A", "g">>, <<"h", "e-acute">>,
   <<"Q", "Q", "Q", "!">>}
RawQueries == {<<>>, <<"b", "=", "2", "&", "a", "=", "%", "2", "0">>}
CookieLists == {<<>>, <<val1>>, <<val2, val1>>}
\* requestContext.http: absent (a nil pointer) or present
NoHTTP == [present |-> FALSE, method |-> "", path |-> <<>>, sourceIp |-> ""]
HTTPContexts ==
  {NoHTTP}
    \cup {[present |-> TRUE, method |-> "POST", path |-> pa, sourceIp |-> "192.0.2.1"] :
            pa \in {<<"/", "a">>, <<"/", "%", "4", "1">>, <<"/", "%", "z">>}}

V1Events ==
  [version : {<<>>, <<"1", ".", "0">>, <<"2", "0">>},
   httpMethod : {"GET"},
   path : Paths,
   queryStringParameters : QueryMaps,
   multiValueQueryStringParameters : MultiQueryMaps,
   headers : HeaderMaps,
   multiValueHeaders : MultiHeaderMaps,
   isBase64Encoded : BOOLEAN,
   body : Bodies,
   identitySourceIp : {"", "192.0.2.1"},
   http : {NoHTTP},
   rawPath : {<<>>},
   rawQueryString : {<<>>},
   cookies : {<<>>}]

V2Events ==
  [version : {<<"2">>, <<"2", ".", "0">>},
   httpMethod : {""},
   path : {<<>>},
   queryStringParameters : {EmptyMap},
   multiValueQueryStringParameters : {EmptyMap},
   headers : HeaderMaps,
   multiValueHeaders : {EmptyMap},
   isBase64Encoded : BOOLEAN,
   body : Bodies,
   identitySourceIp : {""},
   http : HTTPContexts,
   rawPath : {<<"/", "a">>, <<"/", "%", "4", "1">>},
   rawQueryString : RawQueries,
   cookies : CookieLists]

Events == V1Events \cup V2Events

\* the handler function has been called with a decoded event: the loop is
\* inside callBytesHandlerFunc
InitAdapter ==
  /\ mode = "buffered"
  /\ pc = "handler"
  /\ invoke = StreamInvoke
  /\ now = 0
  /\ child = WithValue(WithDeadline(parseDeadline(StreamInvoke).deadline, 0),
                       traceIDOf(StreamInvoke))
  /\ envTraceID = traceIDOf(StreamInvoke)
  /\ invokeErr = NoErr
  /\ req = NoReq
  /\ posts = <<>>
  /\ polled = <<1>>
  /\ lastPoll = [n |-> 1, err |-> FALSE, status |-> StatusOK, bodyErr |-> FALSE]
  /\ hresult = "running"
  /\ hval = NoErr
  /\ hcalls = <<[id |-> 1, hdr |-> StreamInvoke.traceId,
                 ctx |-> traceIDOf(StreamInvoke), env |-> traceIDOf(StreamInvoke)]>>
  /\ ret = "none"
  /\ loopErr = ""
  /\ rw = NoRW /\ hpc = "idle" /\ outq = <<>> /\ pipe = NoPipe
  /\ ecr = newErrorCapturingReader /\ sink = NoSink /\ written = <<>> /\ hops = <<>>
  /\ opsLeft = MaxOps
  /\ event \in Events
  /\ areq = NoResult
  /\ InitAux

\* lambdaHandler on an event that is not V2: f.httpRequestV1(ctx, req)
AdaptV1 ==
  /\ areq = NoResult
  /\ event # NoEvent
  /\ ~isV2Request(event)
  /\ \E order \in RangeOrders(IF MapLen(event.multiValueHeaders) > 0
                              THEN event.multiValueHeaders ELSE event.headers) :
       areq' = httpRequestV1(event, order)
  /\ UNCHANGED <<mode, pc, invoke, now, child, envTraceID, invokeErr, req, posts,
                 polled, lastPoll, hresult, hval, hcalls, ret, loopErr, event>>
  /\ UNCHANGED streamVars
  /\ UNCHANGED auxVars

\* lambdaHandler on a V2 event: f.httpRequestV2(ctx, req)
AdaptV2 ==
  /\ areq = NoResult
  /\ event # NoEvent
  /\ isV2Request(event)
  /\ \E order \in RangeOrders(event.headers) : areq' = httpRequestV2(event, order)
  /\ UNCHANGED <<mode, pc, invoke, now, child, envTraceID, invokeErr, req, posts,
                 polled, lastPoll, hresult, hval, hcalls, ret, loopErr, event>>
  /\ UNCHANGED streamVars
  /\ UNCHANGED auxVars

NextAdapter ==
  \/ AdaptV1
  \/ AdaptV2

SpecAdapter == InitAdapter /\ [][NextAdapter]_vars

(***************************************************************************)
(* Buffered response capture: the responseWriter the handler of            *)
(* lambdaHandler writes to and its rendering as a V1 or V2 response.       *)
(* A Go string is its bytes: the body of a response is a sequence of       *)
(* bytes, base64 text included.                                            *)
(***************************************************************************)
MaxCaptureOps == 4

\* the strings of header keys and media types
CharsImagePNG == <<"i", "m", "a", "g", "e", "/", "p", "n", "g">>
CharsOctetStream ==
  <<"a", "p", "p", "l", "i", "c", "a", "t", "i", "o", "n", "/", "o", "c", "t", "e", "t", "-", "s", "t", "r", "e", "a", "m">>
CharsTextHTML ==
  <<"t", "e", "x", "t", "/", "h", "t", "m", "l", ";", " ", "c", "h", "a", "r", "s", "e", "t", "=", "u", "t", "f", "-", "8">>
CharsTextPlain ==
  <<"t", "e", "x", "t", "/", "p", "l", "a", "i", "n", ";", " ", "c", "h", "a", "r", "s", "e", "t", "=", "u", "t", "f", "-", "8">>
CharsAppJSON == <<"a", "p", "p", "l", "i", "c", "a", "t", "i", "o", "n", "/", "j", "s", "o", "n">>
CharsAppYAML == <<"a", "p", "p", "l", "i", "c", "a", "t", "i", "o", "n", "/", "y", "a", "m", "l">>
CharsAppJavascript ==
  <<"a", "p", "p", "l", "i", "c", "a", "t", "i", "o", "n", "/", "j", "a", "v", "a", "s", "c", "r", "i", "p", "t">>
CharsAppXML == <<"a", "p", "p", "l", "i", "c", "a", "t", "i", "o", "n", "/", "x", "m", "l">>
ContentTypeKey == <<"C", "o", "n", "t", "e", "n", "t", "-", "T", "y", "p", "e">>
SetCookieKey == <<"S", "e", "t", "-", "C", "o", "o", "k", "i", "e">>
\* the result of http.DetectContentType as a string of characters
Chars(str) ==
  CASE str = "image/png" -> CharsImagePNG
    [] str = "application/octet-stream" -> CharsOctetStream
    [] str = "text/html; charset=utf-8" -> CharsTextHTML
    [] OTHER -> CharsTextPlain

\* strings.Index and strings.LastIndex of one character, 0 for "not found"
Index(str, c) ==
  LET is == {i \in 1..Len(str) : str[i] = c}
  IN IF is = {} THEN 0 ELSE CHOOSE i \in is : \A j \in is : i <= j
LastIndex(str, c) ==
  LET is == {i \in 1..Len(str) : str[i] = c}
  IN IF is = {} THEN 0 ELSE CHOOSE i \in is : \A j \in is : j <= i
\* strings.TrimSpace
RECURSIVE TrimSpace(_)
TrimSpace(str) ==
  IF str = <<>> THEN str
  ELSE IF Head(str) = " " THEN TrimSpace(Tail(str))
  ELSE IF str[Len(str)] = " " THEN TrimSpace(SubSeq(str, 1, Len(str) - 1))
  ELSE str
\* strings.EqualFold
EqualFold(a, b) ==
  Len(a) = Len(b) /\ \A i \in 1..Len(a) : ToLower(a[i]) = ToLower(b[i])

\* a classifier that takes the parameters for part of the media type
isBinary_withParameters(contentType) ==
  LET mediaType == TrimSpace(contentType)
      slash     == Index(mediaType, "/")
      mainType  == IF slash = 0 THEN mediaType ELSE SubSeq(mediaType, 1, slash - 1)
      plus      == LastIndex(mediaType, "+")
      suffix    == IF plus = 0 THEN mediaType ELSE SubSeq(mediaType, plus, Len(mediaType))
  IN ~ \/ EqualFold(mainType, <<"t", "e", "x", "t">>)
       \/ \E t \in {CharsAppJSON, CharsAppYAML, CharsAppJavascript, CharsAppXML} : EqualFold(mediaType, t)
       \/ \E x \in {<<"+", "j", "s", "o", "n">>, <<"+", "y", "a", "m", "l">>, <<"+", "x", "m", "l">>} : EqualFold(suffix, x)

\* isBinary
isBinary(contentType) ==
  LET semi      == Index(contentType, ";")
      mediaType == TrimSpace(IF semi = 0 THEN contentType
                             ELSE SubSeq(contentType, 1, semi - 1))
      slash     == Index(mediaType, "/")
      mainType  == IF slash = 0 THEN mediaType ELSE SubSeq(mediaType, 1, slash - 1)
      plus      == LastIndex(mediaType, "+")
      suffix    == IF plus = 0 THEN mediaType ELSE SubSeq(mediaType, plus, Len(mediaType))
  IN ~ \/ EqualFold(mainType, <<"t", "e", "x", "t">>)
       \/ \E t \in {CharsAppJSON, CharsAppYAML, CharsAppJavascript, CharsAppXML} : EqualFold(mediaType, t)
       \/ \E x \in {<<"+", "j", "s", "o", "n">>, <<"+", "y", "a", "m", "l">>, <<"+", "x", "m", "l">>} : EqualFold(suffix, x)

\* the ASCII code of a character of base64 text, and the character of a code
AsciiTable ==
  [c \in DOMAIN B64Index \cup {"="} |->
     LET i == B64Val(c)
     IN IF c = "=" THEN 61
        ELSE IF i < 26 THEN 65 + i
        ELSE IF i < 52 THEN 97 + (i - 26)
        ELSE IF i < 62 THEN 48 + (i - 52)
        ELSE IF i = 62 THEN 43 ELSE 47]
AsciiOf(c) == AsciiTable[c]
CharOf(n) ==
  IF n = 61 THEN "="
  ELSE IF n >= 65 /\ n <= 90 THEN B64Alphabet[n - 64]
  ELSE IF n >= 97 /\ n <= 122 THEN B64Alphabet[n - 70]
  ELSE IF n >= 48 /\ n <= 57 THEN B64Alphabet[n + 5]
  ELSE IF n = 43 THEN "+"
  ELSE IF n = 47 THEN "/"
  ELSE "?"

\* base64.StdEncoding.EncodeToString: three bytes make four characters, a
\* rest of one or two bytes is padded with "="
EncodeToString(src) ==
  [i \in 1..(4 * ((Len(src) + 2) \div 3)) |->
     LET q  == 3 * ((i - 1) \div 4)
         b1 == src[q + 1].byte
         b2 == IF q + 2 <= Len(src) THEN src[q + 2].byte ELSE 0
         b3 == IF q + 3 <= Len(src) THEN src[q + 3].byte ELSE 0
     IN CASE (i - 1) % 4 = 0 -> B64Alphabet[(b1 \div 4) + 1]
          [] (i - 1) % 4 = 1 -> B64Alphabet[((b1 % 4) * 16 + (b2 \div 16)) + 1]
          [] (i - 1) % 4 = 2 -> IF q + 2 > Len(src) THEN "="
                                ELSE B64Alphabet[((b2 % 16) * 4 + (b3 \div 64)) + 1]
          [] OTHER -> IF q + 3 > Len(src) THEN "=" ELSE B64Alphabet[(b3 % 64) + 1]]

\* the Go string of base64 text, and the text of such a string
StringOf(chars) == [i \in 1..Len(chars) |-> Byte(AsciiOf(chars[i]))]
TextOf(str) == [i \in 1..Len(str) |-> CharOf(str[i].byte)]

\* newResponseWriter
newResponseWriter ==
  [w |-> <<>>, isBinary |-> FALSE, wroteHeader |-> FALSE, header |-> EmptyMap,
   statusCode |-> 0]

\* http.Header.Add and http.Header.Values
HeaderAdd(headers, k, v) ==
  LET key == CanonicalMIMEHeaderKey(k)
  IN MapSet(headers, key, (IF key \in DOMAIN headers THEN headers[key] ELSE <<>>) \o <<v>>)
HeaderValues(headers, k) ==
  IF CanonicalMIMEHeaderKey(k) \in DOMAIN headers
  THEN headers[CanonicalMIMEHeaderKey(k)] ELSE <<>>

\* responseWriter.WriteHeader
WriteHeaderBuffered(w, code) ==
  IF w.wroteHeader THEN w
  ELSE [w EXCEPT !.statusCode = code, !.wroteHeader = TRUE]

\* responseWriter.Write: rw.w.Write(data), nothing else
WriteBuffered(w, data) == [w EXCEPT !.w = @ \o data]

\* a detectContentType that keeps the sniffed type to itself
detectContentType_noHeader(w) ==
  [w EXCEPT !.isBinary = isBinary(Chars(DetectContentType(w.w)))]

\* responseWriter.detectContentType
detectContentType(w) ==
  LET contentType == Chars(DetectContentType(w.w))
  IN [w EXCEPT !.header = HeaderSet(w.header, ContentTypeKey, contentType),
               !.isBinary = isBinary(contentType)]

\* an encodeBody that renders every body as text
encodeBody_neverEncodes(w) ==
  LET w1 == IF ~w.wroteHeader THEN WriteHeaderBuffered(w, StatusOK) ELSE w
      w2 == IF HeaderGet(w1.header, ContentTypeKey) # <<>>
            THEN [w1 EXCEPT !.isBinary = isBinary(HeaderGet(w1.header, ContentTypeKey))]
            ELSE detectContentType(w1)
  IN [rw |-> w2, body |-> w2.w]

\* an encodeBody that sniffs whatever the handler has set
encodeBody_alwaysSniffs(w) ==
  LET w1 == IF ~w.wroteHeader THEN WriteHeaderBuffered(w, StatusOK) ELSE w
      w2 == detectContentType(w1)
  IN [rw |-> w2,
      body |-> IF w2.isBinary THEN StringOf(EncodeToString(w2.w)) ELSE w2.w]

\* responseWriter.encodeBody: the writer as it leaves it, and the body
encodeBody(w) ==
  LET w1 == IF ~w.wroteHeader THEN WriteHeaderBuffered(w, StatusOK) ELSE w
      w2 == IF HeaderGet(w1.header, ContentTypeKey) # <<>>
            THEN [w1 EXCEPT !.isBinary = isBinary(HeaderGet(w1.header, ContentTypeKey))]
            ELSE detectContentType(w1)
  IN [rw |-> w2,
      body |-> IF w2.isBinary THEN StringOf(EncodeToString(w2.w)) ELSE w2.w]

\* the folded headers map: values joined by ", ", of Set-Cookie the first
FoldV1(header) ==
  [key \in {k \in DOMAIN header : k # SetCookieKey \/ Len(header[k]) > 0} |->
     IF key = SetCookieKey THEN header[key][1] ELSE Join(header[key], <<",", " ">>)]

\* a V1 rendering that folds Set-Cookie like any other header
lambdaResponseV1_foldsCookies(w) ==
  LET e == encodeBody(w)
  IN [rw |-> e.rw,
      response |->
        [StatusCode        |-> e.rw.statusCode,
         Headers           |-> [key \in DOMAIN e.rw.header |->
                                  Join(e.rw.header[key], <<",", " ">>)],
         MultiValueHeaders |-> e.rw.header,
         Body              |-> e.body,
         IsBase64Encoded   |-> e.rw.isBinary,
         Cookies           |-> <<>>]]

\* responseWriter.lambdaResponseV1
lambdaResponseV1(w) ==
  LET e == encodeBody(w)
  IN [rw |-> e.rw,
      response |->
        [StatusCode        |-> e.rw.statusCode,
         Headers           |-> FoldV1(e.rw.header),
         MultiValueHeaders |-> e.rw.header,
         Body              |-> e.body,
         IsBase64Encoded   |-> e.rw.isBinary,
         Cookies           |-> <<>>]]

\* a V2 rendering that leaves Set-Cookie in the headers map
lambdaResponseV2_keepsCookies(w) ==
  LET e == encodeBody(w)
  IN [rw |-> e.rw,
      response |->
        [StatusCode        |-> e.rw.statusCode,
         Headers           |-> [key \in DOMAIN e.rw.header |->
                                  Join(e.rw.header[key], <<",", " ">>)],
         MultiValueHeaders |-> EmptyMap,
         Body              |-> e.body,
         IsBase64Encoded   |-> e.rw.isBinary,
         Cookies           |-> HeaderValues(e.rw.header, SetCookieKey)]]

\* responseWriter.lambdaResponseV2
lambdaResponseV2(w) ==
  LET e == encodeBody(w)
  IN [rw |-> e.rw,
      response |->
        [StatusCode        |-> e.rw.statusCode,
         Headers           |-> [key \in DOMAIN e.rw.header \ {SetCookieKey} |->
                                  Join(e.rw.header[key], <<",", " ">>)],
         MultiValueHeaders |-> EmptyMap,
         Body              |-> e.body,
         IsBase64Encoded   |-> e.rw.isBinary,
         Cookies           |-> HeaderValues(e.rw.header, SetCookieKey)]]

(***************************************************************************)
(* One buffered handler call: lambdaHandler has adapted the event and made *)
(* the writer; the handler works on it and returns; the writer is          *)
(* rendered.                                                               *)
(***************************************************************************)
HTMLDoc == Bytes(<<60, 33, 68, 79, 67, 84, 89, 80, 69, 32, 104, 116, 109, 108, 62>>)
CaptureChunks == {HTMLDoc, PNGSignature, Big}
CaptureTypes == {CharsImagePNG, CharsTextHTML}
CaptureCodes == {404, 500}
setCookieLower == <<"s", "e", "t", "-", "c", "o", "o", "k", "i", "e">>
CaptureEvents ==
  {e \in Events :
     /\ e.version \in {<<>>, <<"2", ".", "0">>}
     /\ e.path \in {<<"/">>, <<>>} /\ e.rawPath \in {<<"/", "a">>, <<>>}
     /\ e.identitySourceIp = ""
     /\ e.body = <<>> /\ ~e.isBase64Encoded
     /\ e.headers = EmptyMap /\ e.multiValueHeaders = EmptyMap
     /\ e.queryStringParameters = EmptyMap
     /\ e.multiValueQueryStringParameters = EmptyMap
     /\ e.cookies = <<>> /\ e.rawQueryString = <<>>
     /\ (isV2Request(e) => e.http.present /\ e.http.path = <<"/", "a">>)}

InitCapture ==
  /\ mode = "buffered"
  /\ pc = "handler"
  /\ invoke = StreamInvoke
  /\ now = 0
  /\ child = WithValue(WithDeadline(parseDeadline(StreamInvoke).deadline, 0),
                       traceIDOf(StreamInvoke))
  /\ envTraceID = traceIDOf(StreamInvoke)
  /\ invokeErr = NoErr
  /\ req = NoReq
  /\ posts = <<>>
  /\ polled = <<1>>
  /\ lastPoll = [n |-> 1, err |-> FALSE, status |-> StatusOK, bodyErr |-> FALSE]
  /\ hresult = "running"
  /\ hval = NoErr
  /\ hcalls = <<[id |-> 1, hdr |-> StreamInvoke.traceId,
                 ctx |-> traceIDOf(StreamInvoke), env |-> traceIDOf(StreamInvoke)]>>
  /\ ret = "none"
  /\ loopErr = ""
  /\ rw = NoRW /\ hpc = "idle" /\ outq = <<>> /\ pipe = NoPipe
  /\ ecr = newErrorCapturingReader /\ sink = NoSink /\ written = <<>> /\ hops = <<>>
  /\ opsLeft = MaxCaptureOps
  /\ event \in CaptureEvents
  /\ areq = IF isV2Request(event) THEN httpRequestV2(event, <<>>)
            ELSE httpRequestV1(event, <<>>)
  /\ brw = newResponseWriter
  /\ bresp = NoResponse
  /\ chdr = NoHeader /\ cbin = NoClass
  /\ env = NoEnv /\ call = NoCall /\ startRet = "loop"
  /\ ReuseIdle

\* the handler is at work on the writer
Serving == areq.kind = "request" /\ brw # NoWriter /\ bresp = NoResponse

captureUnchanged ==
  UNCHANGED <<mode, pc, invoke, now, child, envTraceID, invokeErr, req, posts,
              polled, lastPoll, hresult, hval, hcalls, ret, loopErr, event, areq,
              rw, hpc, outq, pipe, ecr, sink, chdr, cbin, env, call, startRet,
              fbuf, cbuffer, srw, serve>>

\* w.Header().Add(k, v)
BHeaderAdd ==
  /\ Serving /\ opsLeft > 0
  /\ \E k \in {setCookieLower, xaLower}, v \in {val1, val2} :
       brw' = [brw EXCEPT !.header = HeaderAdd(brw.header, k, v)]
  /\ opsLeft' = opsLeft - 1
  /\ UNCHANGED <<bresp, written, hops>>
  /\ captureUnchanged

\* w.Header().Set("Content-Type", ct)
BSetContentType ==
  /\ Serving /\ opsLeft > 0
  /\ \E ct \in CaptureTypes :
       /\ brw' = [brw EXCEPT !.header = HeaderSet(brw.header, ContentTypeKey, ct)]
       /\ hops' = Append(hops, Call("Header", [ct |-> ct, at |-> Len(written)]))
  /\ opsLeft' = opsLeft - 1
  /\ UNCHANGED <<bresp, written>>
  /\ captureUnchanged

\* w.WriteHeader(code)
BWriteHeader ==
  /\ Serving /\ opsLeft > 0
  /\ \E code \in CaptureCodes :
       /\ brw' = WriteHeaderBuffered(brw, code)
       /\ hops' = Append(hops, Call("WriteHeader", <<code>>))
  /\ opsLeft' = opsLeft - 1
  /\ UNCHANGED <<bresp, written>>
  /\ captureUnchanged

\* w.Write(data); the large chunk is the first write when it is written
BWrite ==
  /\ Serving /\ opsLeft > 0
  /\ \E data \in (IF written = <<>> THEN CaptureChunks ELSE CaptureChunks \ {Big}) :
       /\ brw' = WriteBuffered(brw, data)
       /\ written' = written \o data
  /\ hops' = Append(hops, Call("Write", <<>>))
  /\ opsLeft' = opsLeft - 1
  /\ UNCHANGED bresp
  /\ captureUnchanged

\* ServeHTTP has returned: rw.lambdaResponseV1()
RenderV1 ==
  /\ Serving /\ ~isV2Request(event)
  /\ LET r == lambdaResponseV1(brw)
     IN brw' = r.rw /\ bresp' = r.response
  /\ UNCHANGED <<written, hops, opsLeft>>
  /\ captureUnchanged

\* ServeHTTP has returned: rw.lambdaResponseV2()
RenderV2 ==
  /\ Serving /\ isV2Request(event)
  /\ LET r == lambdaResponseV2(brw)
     IN brw' = r.rw /\ bresp' = r.response
  /\ UNCHANGED <<written, hops, opsLeft>>
  /\ captureUnchanged

NextCapture ==
  \/ BHeaderAdd
  \/ BSetContentType
  \/ BWriteHeader
  \/ BWrite
  \/ RenderV1
  \/ RenderV2

SpecCapture == InitCapture /\ [][NextCapture]_vars

(***************************************************************************)
(* lambdaHandler end to end on events of every version string: the version *)
(* picks the adapter, the handler works on the writer, and the version     *)
(* picks the renderer. The events carry both the V1 fields and the V2      *)
(* fields, so that the two adapters give different requests.               *)
(***************************************************************************)
MaxVariantOps == 2
Versions == {<<>>, <<"1", ".", "0">>, <<"2", "0">>, <<"2">>, <<"2", ".", "0">>}
VariantEvents ==
  [version : Versions,
   httpMethod : {"GET"},
   path : {<<"/">>},
   queryStringParameters : {EmptyMap},
   multiValueQueryStringParameters : {EmptyMap},
   headers : {EmptyMap},
   multiValueHeaders : {EmptyMap},
   isBase64Encoded : {FALSE},
   body : {<<>>},
   identitySourceIp : {""},
   http : {[present |-> TRUE, method |-> "POST", path |-> <<"/", "a">>,
            sourceIp |-> "192.0.2.1"]},
   rawPath : {<<"/", "a">>},
   rawQueryString : {<<>>},
   cookies : {<<>>}]

\* lambdaHandler has been called with a decoded event and has not adapted it yet
InitVariant ==
  /\ mode = "buffered"
  /\ pc = "handler"
  /\ invoke = StreamInvoke
  /\ now = 0
  /\ child = WithValue(WithDeadline(parseDeadline(StreamInvoke).deadline, 0),
                       traceIDOf(StreamInvoke))
  /\ envTraceID = traceIDOf(StreamInvoke)
  /\ invokeErr = NoErr
  /\ req = NoReq
  /\ posts = <<>>
  /\ polled = <<1>>
  /\ lastPoll = [n |-> 1, err |-> FALSE, status |-> StatusOK, bodyErr |-> FALSE]
  /\ hresult = "running"
  /\ hval = NoErr
  /\ hcalls = <<[id |-> 1, hdr |-> StreamInvoke.traceId,
                 ctx |-> traceIDOf(StreamInvoke), env |-> traceIDOf(StreamInvoke)]>>
  /\ ret = "none"
  /\ loopErr = ""
  /\ rw = NoRW /\ hpc = "idle" /\ outq = <<>> /\ pipe = NoPipe
  /\ ecr = newErrorCapturingReader /\ sink = NoSink /\ written = <<>> /\ hops = <<>>
  /\ opsLeft = MaxVariantOps
  /\ event \in VariantEvents
  /\ areq = NoResult
  /\ brw = newResponseWriter
  /\ bresp = NoResponse
  /\ chdr = NoHeader /\ cbin = NoClass
  /\ env = NoEnv /\ call = NoCall /\ startRet = "loop"
  /\ ReuseIdle

NextVariant ==
  \/ AdaptV1
  \/ AdaptV2
  \/ BHeaderAdd
  \/ BSetContentType
  \/ BWriteHeader
  \/ BWrite
  \/ RenderV1
  \/ RenderV2

SpecVariant == InitVariant /\ [][NextVariant]_vars

(***************************************************************************)
(* Sequential invocations on the buffers the process keeps: the client's   *)
(* buffer holds the poll body, the lambdaFunction's buffer and out serve   *)
(* the base64 decoding of the request body, and its builder, buffer and    *)
(* out take the response body (src/ridgenative.go). A []byte is modelled   *)
(* by its backing array: reslicing keeps what the array held.              *)
(***************************************************************************)
MaxReuseInvokes == 2
MaxReuseOps == 2

Zeros(n) == Repeat(0, n)
\* the element of a one-element set: a value computed once and then named
The(S) == CHOOSE x \in S : TRUE
\* copy data to the front of the array
Overwrite(arr, data) == data \o SubSeq(arr, Len(data) + 1, Len(arr))
\* base64.StdEncoding.DecodedLen and EncodedLen
DecodedLen(n) == (n \div 4) * 3
EncodedLen(n) == ((n + 2) \div 3) * 4

\* what base64.StdEncoding.Decode has written when it meets corrupt input:
\* the bytes of the quanta before it
RECURSIVE DecodedPrefix(_)
DecodedPrefix(str) ==
  IF Len(str) < 4 THEN <<>>
  ELSE LET q == DecodeQuantum(SubSeq(str, 1, 4), Len(str) = 4)
       IN IF q.ok THEN q.bytes \o DecodedPrefix(SubSeq(str, 5, Len(str))) ELSE <<>>

\* runtimeAPIClient.next: c.buffer.Reset(), then c.buffer.ReadFrom(resp.Body)
nextBuffer(buffer, body) == <<>> \o body

\* lambdaFunction.decodeBody
decodeBodyShared(f, r) ==
  IF r.body = <<>> THEN [ok |-> TRUE, f |-> f, body |-> NoSharedBody]
  ELSE IF r.isBase64Encoded
  THEN LET n   == DecodedLen(Len(r.body))
           out == IF Len(f.out) < n THEN Zeros(n) ELSE f.out
       IN The({IF ~d.ok
               THEN [ok |-> FALSE,
                     f |-> [f EXCEPT !.buffer = StringOf(r.body),
                                     !.out = Overwrite(out, DecodedPrefix(r.body))],
                     body |-> NoSharedBody]
               ELSE [ok |-> TRUE,
                     f |-> [f EXCEPT !.buffer = StringOf(r.body),
                                     !.out = Overwrite(out, d.bytes)],
                     body |-> [kind |-> "out", n |-> Len(d.bytes), str |-> <<>>]] :
                 d \in {DecodeString(r.body)}})
  ELSE [ok |-> TRUE, f |-> f, body |-> [kind |-> "string", n |-> 0, str |-> r.body]]

\* io.ReadAll(r.Body): the reader over out[:n] reads the array as it is now
ReadAllShared(f, body) ==
  IF body.kind = "out" THEN SubSeq(f.out, 1, body.n)
  ELSE IF body.kind = "string" THEN StringOf(body.str)
  ELSE <<>>

\* a newResponseWriter that leaves the buffer as the last invocation left it
newResponseWriterShared_noReset(f) ==
  [f |-> [f EXCEPT !.builder = <<>>], rw |-> newSharedWriter]

\* lambdaFunction.newResponseWriter
newResponseWriterShared(f) ==
  [f |-> [f EXCEPT !.builder = <<>>, !.buffer = <<>>], rw |-> newSharedWriter]

\* responseWriter.WriteHeader
WriteHeaderShared(w, code) ==
  IF w.wroteHeader THEN w
  ELSE LET typ == HeaderGet(w.header, ContentTypeKey)
       IN [w EXCEPT !.statusCode = code,
                    !.wroteHeader = TRUE,
                    !.isBinary = IF typ # <<>> THEN isBinary(typ) ELSE @,
                    !.w = IF typ = <<>> THEN @
                          ELSE IF isBinary(typ) THEN "buffer" ELSE "builder"]

\* rw.w.Write(data)
WriteTo(f, w, data) ==
  IF w = "buffer" THEN [f EXCEPT !.buffer = @ \o data]
  ELSE [f EXCEPT !.builder = @ \o data]

\* responseWriter.detectContentType
detectContentTypeShared(f, w) ==
  The({[f  |-> IF isBinary(contentType) THEN f
               ELSE [f EXCEPT !.builder = @ \o f.buffer, !.buffer = <<>>],
        rw |-> [w EXCEPT !.header = HeaderSet(w.header, ContentTypeKey, contentType),
                         !.isBinary = isBinary(contentType),
                         !.w = IF isBinary(contentType) THEN "buffer" ELSE "builder"]] :
         contentType \in {Chars(DetectContentType(f.buffer))}})

\* a Write that sniffs the type from its first chunk, however short
WriteShared_sniffsFirstChunk(f, w, data) ==
  LET w1 == IF ~w.wroteHeader THEN WriteHeaderShared(w, StatusOK) ELSE w
  IN IF w1.w # "nil" THEN [f |-> WriteTo(f, w1.w, data), rw |-> w1, n |-> Len(data)]
     ELSE The({[f |-> d.f, rw |-> d.rw, n |-> Len(data)] :
                 d \in {detectContentTypeShared([f EXCEPT !.buffer = @ \o data], w1)}})

\* responseWriter.Write
WriteShared(f, w, data) ==
  LET w1 == IF ~w.wroteHeader THEN WriteHeaderShared(w, StatusOK) ELSE w
  IN IF w1.w # "nil" THEN [f |-> WriteTo(f, w1.w, data), rw |-> w1, n |-> Len(data)]
     ELSE LET rest == sniffLen - Len(f.buffer)
          IN IF Len(data) < rest
             THEN [f |-> [f EXCEPT !.buffer = @ \o data], rw |-> w1, n |-> Len(data)]
             ELSE LET f1 == [f EXCEPT !.buffer = @ \o SubSeq(data, 1, rest)]
                      r2 == SubSeq(data, rest + 1, Len(data))
                  IN The({[f |-> WriteTo(d.f, d.rw.w, r2), rw |-> d.rw,
                           n |-> rest + Len(r2)] :
                            d \in {detectContentTypeShared(f1, w1)}})

\* responseWriter.encodeBody
encodeBodyShared(f, w) ==
  LET w1 == IF ~w.wroteHeader THEN WriteHeaderShared(w, StatusOK) ELSE w
      Encoded(d) ==
        IF d.rw.isBinary
        THEN LET l == EncodedLen(Len(d.f.buffer))
             IN The({[f |-> [d.f EXCEPT !.out = out], rw |-> d.rw,
                      body |-> SubSeq(out, 1, l)] :
                       out \in {Overwrite(IF Len(d.f.out) < l THEN Zeros(l) ELSE d.f.out,
                                          StringOf(EncodeToString(d.f.buffer)))}})
        ELSE [f |-> d.f, rw |-> d.rw, body |-> d.f.builder]
  IN The({Encoded(d) :
            d \in {IF w1.w = "nil" THEN detectContentTypeShared(f, w1)
                   ELSE [f |-> f, rw |-> w1]}})

\* responseWriter.lambdaResponseV1
lambdaResponseV1Shared(f, w) ==
  The({[f |-> e.f, rw |-> e.rw,
        response |->
          [StatusCode        |-> e.rw.statusCode,
           Headers           |-> FoldV1(e.rw.header),
           MultiValueHeaders |-> e.rw.header,
           Body              |-> e.body,
           IsBase64Encoded   |-> e.rw.isBinary,
           Cookies           |-> <<>>]] : e \in {encodeBodyShared(f, w)}})

\* responseWriter.lambdaResponseV2
lambdaResponseV2Shared(f, w) ==
  The({[f |-> e.f, rw |-> e.rw,
        response |->
          [StatusCode        |-> e.rw.statusCode,
           Headers           |-> [key \in DOMAIN e.rw.header \ {SetCookieKey} |->
                                    Join(e.rw.header[key], <<",", " ">>)],
           MultiValueHeaders |-> EmptyMap,
           Body              |-> e.body,
           IsBase64Encoded   |-> e.rw.isBinary,
           Cookies           |-> HeaderValues(e.rw.header, SetCookieKey)]] :
         e \in {encodeBodyShared(f, w)}})

Plain == Bytes(<<120>>)
ReuseChunks == {Plain, PNGSignature, Big}
ReuseTypes == {CharsImagePNG, CharsTextHTML}
ReuseBodies ==
  {[isBase64Encoded |-> FALSE, body |-> <<>>],
   [isBase64Encoded |-> FALSE, body |-> <<"h", "i">>],
   [isBase64Encoded |-> TRUE, body |-> <<"Q", "Q", "=", "=">>],
   [isBase64Encoded |-> TRUE, body |-> <<"Q", "U", "J", "D", "Q", "=", "Q", "Q">>]}
ReuseEvents ==
  {e \in VariantEvents :
     /\ e.version \in {<<>>, <<"2", ".", "0">>}}
WithBody(e, b) == [e EXCEPT !.isBase64Encoded = b.isBase64Encoded, !.body = b.body]

InitReuse ==
  /\ mode = "buffered"
  /\ opsLeft = 0
  /\ InitLoop
  /\ event = NoEvent
  /\ areq = NoResult
  /\ brw = NoWriter /\ bresp = NoResponse
  /\ chdr = NoHeader /\ cbin = NoClass
  /\ env = NoEnv /\ call = NoCall /\ startRet = "loop"
  /\ ReuseIdle

reuseUnchanged ==
  UNCHANGED <<mode, pc, invoke, now, child, envTraceID, invokeErr, req, posts,
              polled, lastPoll, hresult, hval, hcalls, ret, loopErr, areq,
              rw, hpc, outq, pipe, ecr, sink, brw, chdr, cbin, env, call, startRet>>

\* runtimeAPIClient.next: the body of the poll response is read into the
\* client's buffer; the payload is the buffer's bytes. The writer and the
\* response of the invocation before are gone
RNext ==
  /\ serve.phase = "poll" /\ serve.n < MaxReuseInvokes
  /\ \E e \in ReuseEvents, b \in ReuseBodies :
       /\ cbuffer' = nextBuffer(cbuffer, <<WithBody(e, b)>>)
       /\ serve' = [NoServe EXCEPT !.phase = "invoke", !.n = serve.n + 1,
                                   !.doc = <<WithBody(e, b)>>]
  /\ srw' = newSharedWriter
  /\ event' = NoEvent
  /\ bresp' = NoResponse
  /\ written' = <<>>
  /\ hops' = <<>>
  /\ opsLeft' = 0
  /\ UNCHANGED fbuf
  /\ reuseUnchanged

\* the payload is decoded and lambdaHandler adapts the event: decodeBody,
\* then newResponseWriter; a body that does not decode ends the invocation
RAdapt ==
  /\ serve.phase = "invoke"
  /\ LET e == IF Len(cbuffer) = 1 THEN cbuffer[1] ELSE NoEvent
     IN /\ event' = e
        /\ IF e = NoEvent
           THEN /\ serve' = [serve EXCEPT !.phase = "poll", !.failed = TRUE]
                /\ UNCHANGED <<fbuf, srw>>
           ELSE \E d \in {decodeBodyShared(fbuf, e)} :
                  IF ~d.ok
                  THEN /\ fbuf' = d.f
                       /\ serve' = [serve EXCEPT !.phase = "poll", !.failed = TRUE]
                       /\ UNCHANGED srw
                  ELSE /\ fbuf' = newResponseWriterShared(d.f).f
                       /\ srw' = newResponseWriterShared(d.f).rw
                       /\ serve' = [serve EXCEPT !.phase = "handler", !.body = d.body]
  /\ opsLeft' = MaxReuseOps
  /\ UNCHANGED <<cbuffer, bresp, written, hops>>
  /\ reuseUnchanged

\* the handler reads the request body
RRead ==
  /\ serve.phase = "handler" /\ opsLeft > 0 /\ ~serve.didRead
  /\ serve' = [serve EXCEPT !.didRead = TRUE, !.read = ReadAllShared(fbuf, serve.body)]
  /\ opsLeft' = opsLeft - 1
  /\ UNCHANGED <<fbuf, cbuffer, srw, event, bresp, written, hops>>
  /\ reuseUnchanged

\* w.Header().Set("Content-Type", ct)
RSetContentType ==
  /\ serve.phase = "handler" /\ opsLeft > 0
  /\ \E ct \in ReuseTypes :
       srw' = [srw EXCEPT !.header = HeaderSet(srw.header, ContentTypeKey, ct)]
  /\ serve' = [serve EXCEPT !.late = @ \/ serve.first.set]
  /\ opsLeft' = opsLeft - 1
  /\ UNCHANGED <<fbuf, cbuffer, event, bresp, written, hops>>
  /\ reuseUnchanged

\* w.WriteHeader(code)
RWriteHeader ==
  /\ serve.phase = "handler" /\ opsLeft > 0
  /\ srw' = WriteHeaderShared(srw, 404)
  /\ serve' = [serve EXCEPT !.late = @ \/ serve.first.set]
  /\ opsLeft' = opsLeft - 1
  /\ UNCHANGED <<fbuf, cbuffer, event, bresp, written, hops>>
  /\ reuseUnchanged

\* w.Write(data)
RWrite ==
  /\ serve.phase = "handler" /\ opsLeft > 0
  /\ \E data \in ReuseChunks :
       \E r \in {WriteShared(fbuf, srw, data)} :
          /\ fbuf' = r.f
          /\ srw' = r.rw
          /\ written' = written \o data
          /\ hops' = Append(hops, Call("Write", <<r.n, Len(data)>>))
  /\ serve' = IF serve.first.set THEN serve
              ELSE [serve EXCEPT !.first = [set |-> TRUE, f |-> fbuf, rw |-> srw]]
  /\ opsLeft' = opsLeft - 1
  /\ UNCHANGED <<cbuffer, event, bresp>>
  /\ reuseUnchanged

\* ServeHTTP has returned: the response is rendered in the event's variant
RRender ==
  /\ serve.phase = "handler"
  /\ \E r \in {IF isV2Request(event) THEN lambdaResponseV2Shared(fbuf, srw)
                ELSE lambdaResponseV1Shared(fbuf, srw)} :
       /\ fbuf' = r.f
       /\ srw' = r.rw
       /\ bresp' = r.response
  /\ serve' = [serve EXCEPT !.phase = "poll", !.rendered = TRUE]
  /\ UNCHANGED <<cbuffer, event, written, hops, opsLeft>>
  /\ reuseUnchanged

NextReuse ==
  \/ RNext
  \/ RAdapt
  \/ RRead
  \/ RSetContentType
  \/ RWriteHeader
  \/ RWrite
  \/ RRender

SpecReuse == InitReuse /\ [][NextReuse]_vars

(***************************************************************************)
(* The content classifier applied to a response header: the media type of  *)
(* Content-Type and the two encoding hints.                                *)
(***************************************************************************)
ContentEncodingKey == <<"C", "o", "n", "t", "e", "n", "t", "-", "E", "n", "c", "o", "d", "i", "n", "g">>
XLambdaContentEncodingKey ==
  <<"X", "-", "L", "a", "m", "b", "d", "a", "-", "H", "t", "t", "p", "-", "C", "o", "n", "t", "e", "n", "t", "-", "E", "n", "c", "o", "d", "i", "n", "g">>
CharsGzip == <<"g", "z", "i", "p">>
CharsText == <<"t", "e", "x", "t">>

\* isBinary(header): a text hint wins, then a content encoding, then the
\* media type
isBinaryHeader(header) ==
  IF EqualFold(HeaderGet(header, XLambdaContentEncodingKey), CharsText) THEN FALSE
  ELSE IF HeaderGet(header, ContentEncodingKey) # <<>> THEN TRUE
  ELSE isBinary(HeaderGet(header, ContentTypeKey))

\* content types of text responses and of binary responses
TextContentTypes ==
  {<<"t", "e", "x", "t", "/", "h", "t", "m", "l">>,
   <<"t", "e", "x", "t", "/", "p", "l", "a", "i", "n">>,
   <<"t", "e", "x", "t", "/", "x", "m", "l">>,
   <<"a", "p", "p", "l", "i", "c", "a", "t", "i", "o", "n", "/", "j", "s", "o", "n">>,
   <<"a", "p", "p", "l", "i", "c", "a", "t", "i", "o", "n", "/", "j", "a", "v", "a", "s", "c", "r", "i", "p", "t">>,
   <<"a", "p", "p", "l", "i", "c", "a", "t", "i", "o", "n", "/", "y", "a", "m", "l">>,
   <<"a", "p", "p", "l", "i", "c", "a", "t", "i", "o", "n", "/", "x", "m", "l">>,
   <<"a", "p", "p", "l", "i", "c", "a", "t", "i", "o", "n", "/", "f", "o", "o", "+", "j", "s", "o", "n">>,
   <<"a", "p", "p", "l", "i", "c", "a", "t", "i", "o", "n", "/", "f", "o", "o", "+", "y", "a", "m", "l">>,
   <<"a", "p", "p", "l", "i", "c", "a", "t", "i", "o", "n", "/", "f", "o", "o", "+", "x", "m", "l">>,
   <<"a", "p", "p", "l", "i", "c", "a", "t", "i", "o", "n", "/", "f", "o", "o", "+", "x", "m", "l", " ", ";", " ", "c", "h", "a", "r", "s", "e", "t", "=", "u", "t", "f", "8">>,
   <<"t", "e", "x", "t", "/", "h", "t", "m", "l", ";", " ", "c", "h", "a", "r", "s", "e", "t", "=", "u", "t", "f", "-", "8">>,
   <<"T", "E", "X", "T", "/", "H", "T", "M", "L">>,
   <<"A", "p", "p", "l", "i", "c", "a", "t", "i", "o", "n", "/", "J", "S", "O", "N">>,
   <<"a", "p", "p", "l", "i", "c", "a", "t", "i", "o", "n", "/", "f", "o", "o", "+", "J", "S", "O", "N">>,
   <<"i", "m", "a", "g", "e", "/", "s", "v", "g", "+", "x", "m", "l">>}

BinaryContentTypes ==
  {<<"a", "p", "p", "l", "i", "c", "a", "t", "i", "o", "n", "/", "o", "c", "t", "e", "t", "-", "s", "t", "r", "e", "a", "m">>,
   <<"i", "m", "a", "g", "e", "/", "j", "p", "e", "g">>,
   <<"a", "u", "d", "i", "o", "/", "m", "p", "e", "g">>,
   <<"u", "n", "k", "n", "o", "w", "n", "-", "c", "o", "n", "t", "e", "n", "t", "-", "t", "y", "p", "e">>,
   <<>>,
   <<"i", "m", "a", "g", "e", "/", "s", "v", "g">>,
   <<"i", "m", "a", "g", "e", "/", "p", "n", "g">>,
   <<"a", "p", "p", "l", "i", "c", "a", "t", "i", "o", "n", "/", "x", "-", "j", "s", "o", "n">>,
   <<"a", "p", "p", "l", "i", "c", "a", "t", "i", "o", "n", "/", "j", "s", "o", "n", "x", ";", " ", "t", "e", "x", "t", "/", "h", "t", "m", "l">>,
   <<"a", "p", "p", "l", "i", "c", "a", "t", "i", "o", "n", "/", "j", "s", "o", "n", "+", "z", "i", "p">>}

\* the headers classified: a content type (none when empty) with no hint,
\* with Content-Encoding: gzip, or with X-Lambda-Http-Content-Encoding: text
WithContentType(ct) ==
  IF ct = <<>> THEN EmptyMap ELSE HeaderSet(EmptyMap, ContentTypeKey, ct)
ClassifiedHeaders ==
  UNION {{WithContentType(ct),
          HeaderSet(WithContentType(ct), ContentEncodingKey, CharsGzip),
          HeaderSet(WithContentType(ct), XLambdaContentEncodingKey, CharsText)} :
         ct \in TextContentTypes \cup BinaryContentTypes}

InitClassify ==
  /\ mode = "buffered"
  /\ opsLeft = 0
  /\ InitLoop
  /\ event = NoEvent
  /\ areq = NoResult
  /\ brw = NoWriter /\ bresp = NoResponse
  /\ chdr \in ClassifiedHeaders
  /\ cbin = NoClass
  /\ env = NoEnv /\ call = NoCall /\ startRet = "loop"
  /\ ReuseIdle

\* rw.isBinary = isBinary(rw.header)
Classify ==
  /\ cbin = NoClass
  /\ cbin' = [binary |-> isBinaryHeader(chdr)]
  /\ UNCHANGED <<brw, bresp, chdr, env, call, startRet,
              fbuf, cbuffer, srw, serve>>
  /\ UNCHANGED adapterVars
  /\ UNCHANGED streamVars
  /\ UNCHANGED <<mode, pc, invoke, now, child, envTraceID, invokeErr, req, posts,
                 polled, lastPoll, hresult, hval, hcalls, ret, loopErr>>

NextClassify == Classify

SpecClassify == InitClassify /\ [][NextClassify]_vars

(***************************************************************************)
(* The entry points: ListenAndServe reads the environment and calls Start, *)
(* Start enters the loop of the InvokeMode it is given.                    *)
(***************************************************************************)
InvokeModeBuffered == "BUFFERED"
InvokeModeResponseStream == "RESPONSE_STREAM"
errGo1x == "ridgenative: go1.x runtime is not supported"
errInvalidEnvMode == "ridgenative: invalid RIDGENATIVE_INVOKE_MODE"
errInvalidInvokeMode == "ridgenative: invalid InvokeMode"

\* an entry point that serves every unknown InvokeMode buffered
Start_defaultBuffered(m) ==
  IF m = InvokeModeResponseStream THEN [ret |-> "loop", mode |-> "streaming"]
  ELSE [ret |-> "loop", mode |-> "buffered"]

\* Start: the loop it enters, or the error it returns at once
Start(m) ==
  IF m = InvokeModeBuffered THEN [ret |-> "loop", mode |-> "buffered"]
  ELSE IF m = InvokeModeResponseStream THEN [ret |-> "loop", mode |-> "streaming"]
  ELSE [ret |-> errInvalidInvokeMode, mode |-> "none"]

\* ListenAndServe
ListenAndServe(e) ==
  IF e.execEnv = "AWS_Lambda_go1.x" THEN [ret |-> errGo1x, mode |-> "none"]
  ELSE IF e.runtimeAPI = "" THEN [ret |-> "http", mode |-> "none"]
  ELSE IF e.invokeMode \in {"BUFFERED", ""} THEN Start(InvokeModeBuffered)
  ELSE IF e.invokeMode = "RESPONSE_STREAM" THEN Start(InvokeModeResponseStream)
  ELSE [ret |-> errInvalidEnvMode, mode |-> "none"]

\* AWS_EXECUTION_ENV, AWS_LAMBDA_RUNTIME_API, RIDGENATIVE_INVOKE_MODE
Environments ==
  [execEnv    : {"", "AWS_Lambda_go1.x", "AWS_Lambda_provided.al2"},
   runtimeAPI : {"", "127.0.0.1:9001"},
   invokeMode : {"", "BUFFERED", "RESPONSE_STREAM", "buffered", "STREAMING"}]
\* the calls a main function makes
EntryCalls ==
  {[fn |-> "ListenAndServe", mode |-> ""]}
    \cup {[fn |-> "Start", mode |-> m] :
            m \in {InvokeModeBuffered, InvokeModeResponseStream, "", "buffered"}}

InitStart ==
  /\ mode = "none"
  /\ opsLeft = MaxOps
  /\ pc = "start"
  /\ invoke = NoInvoke
  /\ now = 0
  /\ child = NoChild
  /\ envTraceID = ""
  /\ invokeErr = NoErr
  /\ req = NoReq
  /\ posts = <<>>
  /\ polled = <<>>
  /\ lastPoll = [n |-> 0, err |-> FALSE, status |-> 0, bodyErr |-> FALSE]
  /\ hresult = "none"
  /\ hval = NoErr
  /\ hcalls = <<>>
  /\ ret = "none"
  /\ loopErr = ""
  /\ rw = NoRW /\ hpc = "idle" /\ outq = <<>> /\ pipe = NoPipe
  /\ ecr = newErrorCapturingReader /\ sink = NoSink /\ written = <<>> /\ hops = <<>>
  /\ event = NoEvent
  /\ areq = NoResult
  /\ brw = NoWriter /\ bresp = NoResponse
  /\ chdr = NoHeader /\ cbin = NoClass
  /\ env \in Environments
  /\ call \in EntryCalls
  /\ startRet = "none"
  /\ ReuseIdle

\* the entry point has chosen: the loop is entered, the HTTP server serves,
\* or the error is returned
Entered(r) ==
  /\ startRet' = r.ret
  /\ mode' = r.mode
  /\ pc' = IF r.ret = "loop" THEN "next" ELSE IF r.ret = "http" THEN "http" ELSE "returned"
  /\ UNCHANGED <<invoke, now, child, envTraceID, invokeErr, req, posts, polled,
                 lastPoll, hresult, hval, hcalls, ret, loopErr>>
  /\ UNCHANGED <<brw, bresp, chdr, cbin, env, call, fbuf, cbuffer, srw, serve>>
  /\ UNCHANGED streamVars
  /\ UNCHANGED adapterVars

\* main calls ridgenative.ListenAndServe(address, mux)
CallListenAndServe ==
  /\ pc = "start" /\ call.fn = "ListenAndServe"
  /\ Entered(ListenAndServe(env))

\* main calls ridgenative.Start(mux, mode)
CallStart ==
  /\ pc = "start" /\ call.fn = "Start"
  /\ Entered(Start(call.mode))

\* the entry point, and the loop up to the call of the handler function
NextStart ==
  \/ CallListenAndServe
  \/ CallStart
  \/ Poll
  \/ HandleInvoke
  \/ HandleInvokeStreaming

SpecStart == InitStart /\ [][NextStart]_vars

(***************************************************************************)
(* The POST side gives the request up before its body has ended: the       *)
(* transport closes the body, which closes the read end of the pipe, and   *)
(* the handler task goes on against a closed pipe.                         *)
(***************************************************************************)
MaxPipeOps == 2

\* a pipe whose writes stay pending when the read end is closed
PipeWrite_blocking(p, out) == out

\* io.PipeWriter.Write: the writes left pending; with the read end closed
\* every write returns io.ErrClosedPipe at once
PipeWrite(p, out) == IF p.rclosed THEN <<>> ELSE out

\* httpClient.Do fails while the body is not at its end: the body is closed
\* (errorCapturingReader.Close), postStreaming and handleInvokeStreaming
\* return the error
PostAbort ==
  /\ pc = "post" /\ req.streaming /\ ~sink.ended
  /\ pipe' = [pipe EXCEPT !.rclosed = TRUE]
  /\ outq' = PipeWrite(pipe', outq)
  /\ rw' = IF outq # <<>> THEN [rw EXCEPT !.err = TRUE] ELSE rw
  /\ posts' = [posts EXCEPT ![Len(posts)].result = "failed"]
  /\ ret' = handleReturn(req.site, "err", invokeErr)
  /\ pc' = "exit"
  /\ loopErr' = "handle"
  /\ child' = Cancel(child)
  /\ invokeErr' = NoErr
  /\ UNCHANGED <<hpc, ecr, sink, written, hops, opsLeft>>
  /\ UNCHANGED <<mode, invoke, now, envTraceID, req, polled, lastPoll,
                 hresult, hval, hcalls, event, areq>>
  /\ UNCHANGED auxVars

\* the handler task can make a call on the writer of the closed pipe
ReadyAfterClose == hpc = "run" /\ pipe.rclosed /\ outq = <<>>

\* rw.WriteHeader, rw.Write or rw.Flush against the closed pipe: what the
\* call gives to the pipe fails, and the writer keeps the error
HAfterClose ==
  /\ ReadyAfterClose /\ opsLeft > 0
  /\ \E r \in {WriteHeader(rw, StatusOK), Flush(rw)}
            \cup {[rw |-> Write(rw, d).rw, out |-> Write(rw, d).out] : d \in Chunks} :
       /\ rw' = [r.rw EXCEPT !.err = r.rw.err \/ r.out # <<>>]
       /\ outq' = PipeWrite(pipe, r.out)
  /\ hops' = Append(hops, Call("failed", <<>>))
  /\ opsLeft' = opsLeft - 1
  /\ UNCHANGED <<hpc, pipe, ecr, sink, written>>
  /\ loopUnchanged

\* ServeHTTP returns or panics against the closed pipe: the deferred close
HReturnAfterClose ==
  /\ ReadyAfterClose
  /\ \E err \in {NoErr} \cup {lambdaPanicResponse(v) : v \in PanicValues} :
       LET r == closeWithError(rw, err)
       IN /\ rw' = [r.rw EXCEPT !.err = r.rw.err \/ r.out # <<>>]
          /\ outq' = PipeWrite(pipe, r.out)
          /\ pipe' = [pipe EXCEPT !.wclosed = TRUE, !.werr = CloseWithError(r.err)]
  /\ hpc' = "closed"
  /\ hops' = Append(hops, Call("return", <<>>))
  /\ UNCHANGED <<ecr, sink, written, opsLeft>>
  /\ loopUnchanged

InitPipe ==
  /\ mode = "streaming"
  /\ pc = "post"
  /\ invoke = StreamInvoke
  /\ now = 0
  /\ child = WithValue(WithDeadline(parseDeadline(StreamInvoke).deadline, 0),
                       traceIDOf(StreamInvoke))
  /\ envTraceID = traceIDOf(StreamInvoke)
  /\ invokeErr = NoErr
  /\ req = postStreamingRequest(StreamInvoke)
  /\ posts = <<[id |-> 1, ep |-> "response", result |-> "inflight"]>>
  /\ polled = <<1>>
  /\ lastPoll = [n |-> 1, err |-> FALSE, status |-> StatusOK, bodyErr |-> FALSE]
  /\ hresult = "started"
  /\ hval = NoErr
  /\ hcalls = <<[id |-> 1, hdr |-> StreamInvoke.traceId,
                 ctx |-> traceIDOf(StreamInvoke), env |-> traceIDOf(StreamInvoke)]>>
  /\ ret = "none"
  /\ loopErr = ""
  /\ rw = newStreamingResponseWriter
  /\ hpc = "run"
  /\ outq = <<>>
  /\ pipe = NoPipe
  /\ ecr = newErrorCapturingReader
  /\ sink = NoSink
  /\ written = <<>>
  /\ hops = <<>>
  /\ opsLeft = MaxPipeOps
  /\ event = NoEvent
  /\ areq = NoResult
  /\ InitAux

NextPipe ==
  \/ HSetContentType
  \/ HWriteHeader
  \/ HWrite
  \/ HFlush
  \/ HReturn
  \/ HPanic
  \/ BodyRead
  \/ PostReply
  \/ PostAbort
  \/ HAfterClose
  \/ HReturnAfterClose

\* the transport goes on reading the body and the control plane answers;
\* a handler that is not blocked returns in the end
SpecPipe ==
  /\ InitPipe /\ [][NextPipe]_vars
  /\ WF_vars(BodyRead) /\ WF_vars(PostReply)
  /\ WF_vars(HReturnAfterClose)

(***************************************************************************)
(* Properties.                                                             *)
(***************************************************************************)
LastPost == posts[Len(posts)]
Accepted == Len(posts) > 0 /\ LastPost.result = "accepted"

\* the type name the envelope of a value is expected to carry
TypeNameOf(v) ==
  CASE v = boom -> "string"
    [] v = myError -> "myError"
    [] v = codeError -> "codeError"
    [] v = errDeadlineExceeded -> "deadlineExceededError"
    [] OTHER -> "myError"

\* C1: every invocation next() returned gets exactly one result POST, to its
\* own response or error endpoint, and the loop polls again only when that
\* POST has been accepted by the control plane.
C1_OnePostBeforeNextPoll ==
  /\ Len(posts) <= Len(polled)
  /\ \A i \in 1..Len(posts) :
       /\ posts[i].id = polled[i]
       /\ posts[i].ep \in {"response", "error"}
       /\ i < Len(polled) => posts[i].result = "accepted"
  /\ pc = "next" =>
       /\ Len(posts) = Len(polled)
       /\ \A i \in 1..Len(posts) : posts[i].result = "accepted"
  /\ pc \in {"handle", "handler"} => Len(posts) = Len(polled) - 1
  /\ pc = "post" => Len(posts) = Len(polled) /\ LastPost.result = "inflight"
  /\ pc = "exit" /\ ret # "none" => Len(posts) = Len(polled)

C1_Witness ==
  /\ mode = "streaming" /\ pc = "next" /\ Len(posts) = 2
  /\ posts[1].ep = "error" /\ posts[2].ep = "response"

\* C2: a panic of the handler during a buffered invocation is reported to the
\* invocation's error endpoint as an envelope carrying the panic value's
\* text, its type name and a stack trace, and once that POST is accepted
\* handleInvoke returns an error: the loop ends and never polls again.
C2_PanicReportedThenExit ==
  (mode = "buffered" /\ hresult = "panic") =>
    /\ pc \in {"post", "exit"}
    /\ LastPost.id = invoke.id /\ LastPost.ep = "error"
    /\ Len(posts) = Len(polled)
    /\ req.path = [id |-> invoke.id, ep |-> "error"]
    /\ req.contentType = contentTypeJSON
    /\ DOMAIN req.body = {"errorMessage", "errorType", "stackTrace"}
    /\ req.body.errorMessage = hval.text
    /\ req.body.errorType = TypeNameOf(hval)
    /\ req.body.stackTrace # <<>>
    /\ pc = "exit" => ret = "err"
    /\ Accepted => pc = "exit"

C2_Witness ==
  /\ mode = "buffered" /\ hresult = "panic" /\ hval = boom
  /\ pc = "exit" /\ Accepted /\ req.body.errorType = "string"

\* what C3 says of the POST itself: one POST, to the error endpoint of the
\* invocation, JSON, an envelope without stack trace
C3_Reported ==
  hresult = "error" =>
    /\ pc \in {"post", "next", "exit"}
    /\ Len(posts) = Len(polled)
    /\ LastPost.id = invoke.id /\ LastPost.ep = "error"
    /\ req.path = [id |-> invoke.id, ep |-> "error"]
    /\ req.contentType = contentTypeJSON
    /\ req.body = [errorMessage |-> hval.text, errorType |-> TypeNameOf(hval)]

\* C3 as stated: after an ordinary handler error the envelope is posted to
\* the error endpoint and the handle operation returns nil, the loop going
\* on to the next poll.
C3_ErrorAlwaysReturnsNil ==
  /\ C3_Reported
  /\ (hresult = "error" /\ pc # "post") => (ret = "nil" /\ pc = "next")

\* C3, amended: after an ordinary handler error (buffered, or streaming
\* before any byte) an envelope without stack trace is posted as JSON to the
\* invocation's error endpoint and nothing to its response endpoint; the
\* handle operation returns nil and the loop polls again when the control
\* plane accepts that POST, and returns an error, ending the loop, when it
\* does not.
C3_ErrorReportedLoopContinues ==
  /\ C3_Reported
  /\ (hresult = "error" /\ pc # "post") =>
       IF Accepted THEN ret = "nil" /\ pc = "next" ELSE ret = "err" /\ pc = "exit"

C3_Witness ==
  /\ mode = "buffered" /\ hresult = "error" /\ hval = myError
  /\ pc = "next" /\ ret = "nil" /\ Accepted

\* an accepted report of a runtime fault
FaultReported ==
  /\ hresult = "panic"
  /\ Accepted
  /\ LastPost.ep = "error"
  /\ LastPost.id = invoke.id

\* the last GET next failed
PollFailed ==
  lastPoll.n > 0 /\ (lastPoll.err \/ lastPoll.status # StatusOK \/ lastPoll.bodyErr)

\* C4 as stated: the loop returns only after a runtime-fault report.
C4_ExitOnlyAfterFaultReport ==
  pc = "exit" => FaultReported

\* C4, amended: the loop returns only when next() fails, when a result POST
\* is not accepted by the control plane, or after an envelope with
\* shouldExit=true has been posted and accepted; an invocation whose POST
\* was accepted and whose handler did not fault never ends the loop.
C4_ExitCauses ==
  /\ pc = "exit" =>
       \/ ret = "none" /\ PollFailed /\ loopErr = "next"
       \/ ret = "err" /\ Len(posts) > 0 /\ LastPost.result \in {"rejected", "failed"}
       \/ ret = "err" /\ FaultReported
  /\ (ret = "nil") => pc \in {"next", "exit"} /\ ~(pc = "exit" /\ ~PollFailed)
  /\ (pc # "post" /\ Accepted /\ hresult \in {"ok", "error", "cancel", "deadline", "decode"})
       => ret = "nil"

C4_Witness ==
  /\ pc = "exit" /\ ret = "none" /\ lastPoll.status = 201 /\ Len(polled) = 1

\* the last GET next failed at transport level or with a non-2xx status
PollFailedNon2xx ==
  lastPoll.n > 0 /\ (lastPoll.err \/ lastPoll.status < 200 \/ lastPoll.status > 299)

\* C5: when the poll fails (connection error or non-2xx status) the loop
\* returns that error; no handler is invoked and nothing is posted for it.
C5_PollFailureEndsLoop ==
  PollFailedNon2xx =>
    /\ pc = "exit"
    /\ loopErr = "next"
    /\ hresult = "none"
    /\ ret = "none"
    /\ Len(polled) = lastPoll.n - 1
    /\ Len(posts) = Len(polled)
    /\ \A i \in 1..Len(posts) : posts[i].result = "accepted" /\ posts[i].id = polled[i]
    /\ \A i \in 1..Len(hcalls) : hcalls[i].id <= Len(polled)

C5_Witness ==
  /\ PollFailedNon2xx /\ lastPoll.status = 404
  /\ Len(polled) = 1 /\ Len(posts) = 1 /\ Len(hcalls) = 1

\* the deadline header is missing or no millisecond-epoch integer
BadDeadlineHeader(h) == h \in {<<>>, <<"1", "s">>}

\* what C6 says up to the POST: no handler call, an envelope posted to the
\* invocation's error endpoint
C6_Reported ==
  (hresult # "none" /\ BadDeadlineHeader(invoke.deadlineMs)) =>
    /\ \A i \in 1..Len(hcalls) : hcalls[i].id # invoke.id
    /\ hresult = "deadline"
    /\ pc \in {"post", "next", "exit"}
    /\ Len(posts) = Len(polled)
    /\ LastPost.id = invoke.id /\ LastPost.ep = "error"
    /\ req.path = [id |-> invoke.id, ep |-> "error"]
    /\ DOMAIN req.body = {"errorMessage", "errorType"}

\* C6 as stated: with a bad deadline header the handler is never invoked, an
\* envelope is posted to the error endpoint and the handle operation
\* returns nil.
C6_BadDeadlineAlwaysReturnsNil ==
  /\ C6_Reported
  /\ (hresult = "deadline" /\ pc # "post") => (ret = "nil" /\ pc = "next")

\* C6, amended: with a missing or unparsable deadline header the handler is
\* never invoked and an envelope is posted to the invocation's error
\* endpoint; the handle operation returns nil (the loop polls again) when
\* that POST is accepted, and the POST's error, ending the loop, when not.
C6_BadDeadlineReported ==
  /\ C6_Reported
  /\ (hresult = "deadline" /\ pc # "post") =>
       IF Accepted THEN ret = "nil" /\ pc = "next" ELSE ret = "err" /\ pc = "exit"

C6_Witness ==
  /\ mode = "streaming" /\ invoke.deadlineMs = <<>> /\ hresult = "deadline"
  /\ pc = "next" /\ ret = "nil" /\ hcalls = <<>>

\* what C7 says of the scope and of the report: the scope is done from the
\* header's millisecond on (and not before), a handler can only have seen it
\* done then, and its cancellation error goes to the error endpoint
C7_CancelledAndReported ==
  /\ (pc = "handler" /\ invoke.deadlineMs = <<"1">> /\ now >= 1) => child.done
  /\ (pc = "handler" /\ invoke.deadlineMs = <<"1">> /\ now < 1) => ~child.done
  /\ (pc = "handler" /\ invoke.deadlineMs = <<"1", "0">> /\ now < 10) => ~child.done
  /\ hresult = "cancel" =>
       /\ invoke.deadlineMs = <<"1">> /\ now >= 1
       /\ Len(posts) = Len(polled)
       /\ LastPost.id = invoke.id /\ LastPost.ep = "error"
       /\ req.body = [errorMessage |-> "context deadline exceeded",
                      errorType |-> TypeNameOf(hval)]

\* C7 as stated: the scope is cancelled at the deadline, and a handler that
\* then returns a cancellation error has it reported, the handle operation
\* returning nil.
C7_CancelAlwaysReturnsNil ==
  /\ C7_CancelledAndReported
  /\ (hresult = "cancel" /\ pc # "post") => (ret = "nil" /\ pc = "next")

\* C7, amended: the scope is cancelled once the header's deadline is
\* reached; a handler that waited for it and returns a cancellation-derived
\* error gets an invocation failure posted to the error endpoint, and the
\* handle operation returns nil (the loop continues) when that POST is
\* accepted and an error when it is not.
C7_DeadlineCancelsScope ==
  /\ C7_CancelledAndReported
  /\ (hresult = "cancel" /\ pc # "post") =>
       IF Accepted THEN ret = "nil" /\ pc = "next" ELSE ret = "err" /\ pc = "exit"

C7_Witness ==
  /\ mode = "buffered" /\ hresult = "cancel" /\ hval = errDeadlineExceeded
  /\ invoke.deadlineMs = <<"1">> /\ pc = "next" /\ ret = "nil"

\* C8: whenever the handler runs, the trace id in its scope and the
\* process-wide _X_AMZN_TRACE_ID are the trace header of the invocation being
\* handled, whatever the earlier invocations carried.
C8_TraceIdOfThisInvocation ==
  /\ (pc = "handler" \/ hpc = "run") =>
       /\ child.trace = invoke.traceId
       /\ envTraceID = invoke.traceId
  /\ \A i \in 1..Len(hcalls) :
       /\ hcalls[i].id = polled[hcalls[i].id]
       /\ hcalls[i].ctx = hcalls[i].hdr
       /\ hcalls[i].env = hcalls[i].hdr

C8_Witness ==
  /\ pc = "handler" /\ Len(hcalls) = 2
  /\ hcalls[1].hdr = "Root=1-a" /\ hcalls[2].hdr = ""
  /\ envTraceID = ""

\* C9: the streamed body of an invocation that ended normally is the JSON
\* header block {statusCode, headers, cookies}, then exactly eight zero
\* bytes, then the bytes the handler wrote, in write order and unchanged.
C9_StreamFraming ==
  (pc = "post" /\ req.streaming /\ sink.ended) =>
    LET s == Concat(sink.units)
    IN /\ Len(s) = 9 + Len(written)
       /\ DOMAIN s[1] = {"json"}
       /\ {"statusCode", "headers"} \subseteq DOMAIN s[1].json
       /\ DOMAIN s[1].json \subseteq {"statusCode", "headers", "cookies"}
       /\ s[1].json.statusCode = rw.statusCode
       /\ \A i \in 2..9 : s[i] = Byte(0)
       /\ SubSeq(s, 10, Len(s)) = written
       /\ \A i \in 1..Len(sink.units) : sink.units[i] # <<>>

C9_Witness ==
  /\ pc = "post" /\ req.streaming /\ sink.ended
  /\ Len(written) > PreludeCap
  /\ Len(sink.units) = 2
  /\ rw.header.ct = "text/plain; charset=utf-8"

\* C10: when the byte source of a streamed response ends in an error, the
\* error travels as trailers (its type name, and the base64 of its JSON
\* envelope) on the POST to the response endpoint, and
\* handleInvokeStreaming returns nil.
C10_SourceErrorBecomesTrailers ==
  (pc # "handler" /\ pipe.wclosed /\ ~IsEOF(pipe.werr) /\ outq = <<>> /\ ret # "none") =>
    /\ LastPost.ep = "response"
    /\ ecr.trailer.keys = {"Lambda-Runtime-Function-Error-Type",
                           "Lambda-Runtime-Function-Error-Body"}
    /\ ecr.trailer.errorType = pipe.werr.Type
    /\ ecr.trailer.errorBody = Base64(MarshalError(pipe.werr))
    /\ Accepted => ret = "nil"

\* C11: when the byte source of a streamed response ends normally, the POST
\* carries neither the Lambda-Runtime-Function-Error-Type nor the
\* Lambda-Runtime-Function-Error-Body trailer.
C11_NoTrailersOnNormalEnd ==
  (pc = "post" /\ req.streaming /\ sink.ended /\ IsEOF(pipe.werr)) =>
    /\ sink.trailer.keys = {}
    /\ ecr.trailer.keys = {}

\* the handler task ended in a panic: the pipe carries the fault's envelope
\* and every write before it has been read
StreamFaulted ==
  /\ mode = "streaming"
  /\ pipe.wclosed /\ IsEnvelope(pipe.werr)
  /\ outq = <<>>

\* C12: in streaming mode a panic of the HTTP handler is reported, and the
\* loop returns once the report is accepted, without another poll: for a
\* panic before the stream starts the report is the envelope posted to the
\* error endpoint, for a panic on the handler task it travels with the
\* streamed POST.
C12_StreamingFaultReportedThenExit ==
  /\ (mode = "streaming" /\ hresult = "panic") =>
       /\ pc \in {"post", "exit"}
       /\ LastPost.id = invoke.id /\ LastPost.ep = "error"
       /\ DOMAIN req.body = {"errorMessage", "errorType", "stackTrace"}
       /\ Accepted => (pc = "exit" /\ ret = "err")
  /\ (StreamFaulted /\ (sink.ended \/ pc # "post")) =>
       /\ ecr.trailer.keys # {}
       /\ pc = "exit" => (Accepted /\ ret = "err")
       /\ pc # "next"

\* one step of the pipe between handler task and POST
C13_Step ==
  /\ outq # <<>> =>
       /\ <<rw, written, hops, hpc, pipe, opsLeft>>' = <<rw, written, hops, hpc, pipe, opsLeft>>
       /\ \/ outq' = outq /\ sink' = sink
          \/ /\ outq' = Tail(outq)
             /\ sink' = [sink EXCEPT !.units = Append(sink.units, Head(outq))]
  /\ (outq = <<>> /\ ~pipe.wclosed) => (sink' = sink \/ sink' = NoSink)
  /\ (sink'.units # sink.units /\ sink' # NoSink) =>
       /\ outq # <<>>
       /\ sink'.units = Append(sink.units, Head(outq))
       /\ ~sink.ended

\* C13: the handler task and the POST are coupled by a rendezvous: while a
\* write of the handler task is pending the handler task does nothing else
\* and the only thing that happens to the pipe is the POST side reading
\* exactly that write, a read takes place only when a write is pending or
\* the pipe is closed, and no read follows the end of the stream.
C13_Rendezvous == [][C13_Step]_vars

C13_Witness ==
  /\ hpc = "run" /\ opsLeft > 0
  /\ sink.units # <<>> /\ ~sink.ended
  /\ outq # <<>>

\* u is a header block, of the status WriteHeader was called with, and the
\* eight-NUL delimiter
IsHeaderUnit(u) ==
  /\ Len(u) = 9
  /\ DOMAIN u[1] = {"json"}
  /\ u[1].json.statusCode = rw.statusCode
  /\ \A i \in 2..9 : u[i] = Byte(0)

\* the handler's calls begin WriteHeader, Write(a), Flush
FlushScenario ==
  /\ Len(hops) >= 3
  /\ hops[1].op = "WriteHeader" /\ hops[2].op = "Write" /\ hops[3].op = "Flush"

\* C14: when Flush has returned, every byte written so far, the header block
\* included, has reached the sink; a handler doing WriteHeader, Write(a),
\* Flush, Write(b) makes the sink receive the header block with its
\* delimiter, a and b as three units in this order, then the end of stream.
C14_FlushForcesOut ==
  /\ (hops # <<>> /\ hops[Len(hops)].op = "Flush") =>
       /\ rw.wroteHeader
       /\ rw.buf = <<>>
       /\ LET out == Concat(sink.units) \o Concat(outq)
          IN /\ Len(out) = 9 + Len(written)
             /\ IsHeaderUnit(SubSeq(out, 1, 9))
             /\ SubSeq(out, 10, Len(out)) = written
  /\ (FlushScenario /\ Len(hops) = 3 /\ outq = <<>>) =>
       /\ Len(sink.units) = 2
       /\ IsHeaderUnit(sink.units[1])
       /\ sink.units[2] = hops[2].data
  /\ (FlushScenario /\ Len(hops) = 5 /\ hops[4].op = "Write" /\ hops[5].op = "return"
        /\ sink.ended) =>
       /\ Len(sink.units) = 3
       /\ IsHeaderUnit(sink.units[1])
       /\ sink.units[2] = hops[2].data
       /\ sink.units[3] = hops[4].data

C14_Witness ==
  /\ FlushScenario /\ Len(hops) = 5 /\ hops[4].op = "Write" /\ hops[5].op = "return"
  /\ hops[2].data = Bytes(<<104, 105>>) /\ hops[4].data = Bytes(<<0, 255>>)
  /\ sink.ended /\ Len(sink.units) = 3

\* the adapter has produced a request from a V1 event, from a V2 event
V1Request == areq # NoResult /\ ~isV2Request(event) /\ areq.kind = "request"
V2Request == areq # NoResult /\ isV2Request(event) /\ areq.kind = "request"

\* the canonical forms of the keys of a map
CanonicalKeys(m) == {CanonicalMIMEHeaderKey(k) : k \in DOMAIN m}

\* C15: a V1 event with a non-empty multiValueHeaders map gets its headers
\* from that map alone: the keys are the canonical forms of its keys and
\* every key's list of values is kept as it is; the singular map is read
\* only when the multi-value map is empty.
C15_MultiValueHeadersKept ==
  V1Request =>
    IF MapLen(event.multiValueHeaders) > 0
    THEN /\ DOMAIN areq.Header = CanonicalKeys(event.multiValueHeaders)
         /\ \A k \in DOMAIN event.multiValueHeaders :
              areq.Header[CanonicalMIMEHeaderKey(k)] = event.multiValueHeaders[k]
    ELSE /\ DOMAIN areq.Header = CanonicalKeys(event.headers)
         /\ \A k \in DOMAIN event.headers :
              \E k2 \in DOMAIN event.headers :
                /\ CanonicalMIMEHeaderKey(k2) = CanonicalMIMEHeaderKey(k)
                /\ areq.Header[CanonicalMIMEHeaderKey(k)] = <<event.headers[k2]>>

\* the text after the "?" of a request-target ("" without one)
QueryOf(uri) ==
  LET qs == {i \in 1..Len(uri) : uri[i] = "?"}
  IN IF qs = {} THEN <<>>
     ELSE SubSeq(uri, (CHOOSE i \in qs : \A j \in qs : i <= j) + 1, Len(uri))

\* the query "p=%26&q=b&q=a+&q=b"
EncodedTwoKeys ==
  <<"p", "=", "%", "2", "6", "&", "q", "=", "b", "&", "q", "=", "a", "+", "&",
    "q", "=", "b">>

\* C16: a V1 event with a non-empty multiValueQueryStringParameters map
\* gets as query the URL-encoding of that map alone, keys sorted, every
\* key's values in their order with duplicates; with both maps empty the
\* request-target is the path without "?".
C16_MultiValueQueryEncoded ==
  V1Request =>
    /\ MapLen(event.multiValueQueryStringParameters) > 0 =>
         /\ areq.RequestURI = event.path \o <<"?">> \o Encode(event.multiValueQueryStringParameters)
         /\ areq.URL.RawQuery = Encode(event.multiValueQueryStringParameters)
         /\ (<<"p">> \in DOMAIN event.multiValueQueryStringParameters) =>
              QueryOf(areq.RequestURI) = EncodedTwoKeys
         /\ (DOMAIN event.multiValueQueryStringParameters = {<<"q">>}) =>
              QueryOf(areq.RequestURI) = <<>>
    /\ (MapLen(event.multiValueQueryStringParameters) = 0
          /\ MapLen(event.queryStringParameters) = 0) =>
         /\ areq.RequestURI = event.path
         /\ \A i \in 1..Len(areq.RequestURI) : areq.RequestURI[i] # "?"
         /\ areq.URL.RawQuery = <<>>

C16_Witness ==
  /\ V1Request
  /\ <<"p">> \in DOMAIN event.multiValueQueryStringParameters
  /\ MapLen(event.queryStringParameters) > 0
  /\ QueryOf(areq.RequestURI) = EncodedTwoKeys

C18_RawTargetDecodedURL ==
  V2Request =>
    /\ areq.RequestURI =
         (IF event.rawQueryString # <<>>
          THEN event.rawPath \o <<"?">> \o event.rawQueryString ELSE event.rawPath)
    /\ QueryOf(areq.RequestURI) = event.rawQueryString
    /\ areq.URL.Path = Unescape(event.http.path).out
    /\ (event.http.path = <<"/", "a">>) => areq.URL.Path = <<"/", "a">>
    /\ (event.http.path = <<"/", "%", "4", "1">>) => areq.URL.Path = <<"/", "A">>
    /\ areq.URL.RawQuery = event.rawQueryString
    /\ areq.Method = event.http.method
    /\ areq.RemoteAddr = event.http.sourceIp

C18_Witness ==
  /\ V2Request
  /\ event.rawPath = <<"/", "%", "4", "1">>
  /\ event.http.path = <<"/", "a">>
  /\ event.rawQueryString # <<>>
  /\ areq.RequestURI = <<"/", "%", "4", "1", "?", "b", "=", "2", "&", "a", "=", "%", "2", "0">>
  /\ areq.URL.Path = <<"/", "a">>

\* C19: the request body is the decoded bytes, with their count as content
\* length, for a non-empty body flagged base64; the literal string, with its
\* byte length, for a non-empty unflagged body; http.NoBody with content
\* length 0 for an empty body, whatever the flag.
C19_DecodeBody ==
  (areq # NoResult /\ areq.kind = "request") =>
    /\ event.body = <<>> => (areq.Body = NoBody /\ areq.ContentLength = 0)
    /\ (event.body # <<>> /\ event.isBase64Encoded) =>
         /\ DOMAIN areq.Body = {"kind", "bytes"}
         /\ areq.ContentLength = Len(areq.Body.bytes)
         /\ (event.body = <<"Q", "Q", "=", "=">>) => areq.Body.bytes = Bytes(<<65>>)
         /\ (event.body = <<"Q", "B", "A", "g">>) => areq.Body.bytes = Bytes(<<64, 16, 32>>)
    /\ (event.body # <<>> /\ ~event.isBase64Encoded) =>
         /\ areq.Body = [kind |-> "string", str |-> event.body]
         /\ (event.body = <<"h", "e-acute">>) => areq.ContentLength = 3
         /\ (event.body = <<"Q", "Q", "=", "=">>) => areq.ContentLength = 4

C19_Witness ==
  /\ V1Request
  /\ event.isBase64Encoded /\ event.body = <<"Q", "Q", "=", "=">>
  /\ areq.ContentLength = 1

\* C20: whatever the event, the adapter ends in a request or in an ordinary
\* error, which is reported with shouldExit=false, so that handleInvoke
\* returns nil and the loop goes on; it never ends in a runtime fault.
C20_AdapterTotal ==
  areq # NoResult =>
    /\ areq.kind \in {"request", "error"}
    /\ LET out == callBytesHandlerFunc(invoke.payload, lambdaHandler(areq))
       IN out.err # NoErr =>
            /\ ~lambdaErrorResponse(out.err).ShouldExit
            /\ handleReturn("failure", "nil", lambdaErrorResponse(out.err)) = "nil"

\* the writer has been rendered, as a V1 response, as a V2 response
Rendered == bresp # NoResponse
RenderedV1 == Rendered /\ ~isV2Request(event)
RenderedV2 == Rendered /\ isV2Request(event)

\* the positions of the handler's calls of one kind, and the first of some
CallsOf(op) == {i \in 1..Len(hops) : hops[i].op = op}
FirstOf(is) == CHOOSE i \in is : \A j \in is : i <= j
LastOf(is) == CHOOSE i \in is : \A j \in is : j <= i

\* C21: the status of the rendered response is fixed by the first of the
\* handler's WriteHeader and Write calls: the code of WriteHeader when that
\* came first, 200 when a Write came first or when there was neither.
C21_StatusFixedAtFirstWrite ==
  Rendered =>
    LET fixing == CallsOf("WriteHeader") \cup CallsOf("Write")
    IN bresp.StatusCode =
         (IF fixing = {} THEN 200
          ELSE IF hops[FirstOf(fixing)].op = "Write" THEN 200
          ELSE hops[FirstOf(fixing)].data[1])

\* the text "b=2, a=1"
JoinedTwo == <<"b", "=", "2", ",", " ", "a", "=", "1">>

\* C22: in a V1 response multiValueHeaders holds, for every header name of
\* the writer, all its values in the order added; headers holds them joined
\* by ", " in that order, and for Set-Cookie the first value only.
C22_V1HeaderFolding ==
  RenderedV1 =>
    /\ bresp.MultiValueHeaders = brw.header
    /\ DOMAIN bresp.Headers = DOMAIN brw.header
    /\ \A key \in DOMAIN brw.header :
         IF key = SetCookieKey
         THEN bresp.Headers[key] = brw.header[key][1]
         ELSE bresp.Headers[key] = Join(brw.header[key], <<",", " ">>)
    /\ (<<"X", "-", "A">> \in DOMAIN brw.header
          /\ brw.header[<<"X", "-", "A">>] = <<val2, val1>>) =>
         bresp.Headers[<<"X", "-", "A">>] = JoinedTwo
    /\ bresp.Cookies = <<>>

C22_Witness ==
  /\ RenderedV1
  /\ SetCookieKey \in DOMAIN brw.header
  /\ brw.header[SetCookieKey] = <<val2, val1>>
  /\ bresp.Headers[SetCookieKey] = val2
  /\ <<"X", "-", "A">> \in DOMAIN brw.header
  /\ bresp.Headers[<<"X", "-", "A">>] = JoinedTwo

\* C23: in a V2 response cookies holds the Set-Cookie values of the writer
\* in the order added, headers has no Set-Cookie key and holds every other
\* header joined by ", ", and there is no multiValueHeaders map.
C23_V2CookiesExtracted ==
  RenderedV2 =>
    /\ bresp.Cookies = HeaderValues(brw.header, SetCookieKey)
    /\ SetCookieKey \notin DOMAIN bresp.Headers
    /\ DOMAIN bresp.Headers = DOMAIN brw.header \ {SetCookieKey}
    /\ \A key \in DOMAIN bresp.Headers :
         bresp.Headers[key] = Join(brw.header[key], <<",", " ">>)
    /\ (<<"X", "-", "A">> \in DOMAIN brw.header
          /\ brw.header[<<"X", "-", "A">>] = <<val2, val1>>) =>
         bresp.Headers[<<"X", "-", "A">>] = JoinedTwo
    /\ bresp.MultiValueHeaders = EmptyMap

C23_Witness ==
  /\ RenderedV2
  /\ bresp.Cookies = <<val2, val1>>
  /\ <<"X", "-", "A">> \in DOMAIN brw.header
  /\ bresp.Headers[<<"X", "-", "A">>] = JoinedTwo

\* base64 decoding of a body, quantum by quantum
Decoded(body) ==
  LET str  == TextOf(body)
      n    == Len(str) \div 4
      pad  == IF n = 0 THEN 0
              ELSE IF str[Len(str) - 1] = "=" THEN 2
              ELSE IF str[Len(str)] = "=" THEN 1 ELSE 0
      Q(q) == DecodeQuantum(SubSeq(str, 4 * q + 1, 4 * q + 4), q = n - 1)
      ok   == Len(str) % 4 = 0 /\ \A q \in 0..(n - 1) : Q(q).ok
  IN [ok    |-> ok,
      bytes |-> IF ok
                THEN [i \in 1..(3 * n - pad) |-> Q((i - 1) \div 3).bytes[((i - 1) % 3) + 1]]
                ELSE <<>>]

\* the Content-Type the rendered response carries
ResponseType == bresp.Headers[ContentTypeKey]

\* C24: under a binary content type the rendered response has
\* isBase64Encoded = true and the base64 decoding of its body is the
\* sequence of bytes the handler wrote; under a text content type
\* isBase64Encoded is false and the body is those bytes.
C24_BinaryRoundTrip ==
  Rendered =>
    /\ ResponseType \in {CharsImagePNG, CharsOctetStream} =>
         /\ bresp.IsBase64Encoded
         /\ Decoded(bresp.Body).ok
         /\ Decoded(bresp.Body).bytes = written
    /\ ResponseType \in {CharsTextHTML, CharsTextPlain} =>
         /\ ~bresp.IsBase64Encoded
         /\ bresp.Body = written

C24_Witness ==
  /\ Rendered
  /\ ResponseType = CharsImagePNG
  /\ written = HTMLDoc \o PNGSignature
  /\ bresp.IsBase64Encoded
  /\ bresp.Body # written

\* C25: when the handler never sets Content-Type, the type sniffed from the
\* first 512 bytes written is stored as the response's Content-Type:
\* text/html, unencoded, for output that starts with "<!DOCTYPE html>";
\* image/png, base64-encoded, for output that starts with the PNG signature.
C25_SniffedContentType ==
  (Rendered /\ CallsOf("Header") = {}) =>
    /\ ContentTypeKey \in DOMAIN bresp.Headers
    /\ brw.header[ContentTypeKey] = <<ResponseType>>
    /\ HasPrefix(written, HTMLDoc) =>
         /\ ResponseType = CharsTextHTML
         /\ ~bresp.IsBase64Encoded
         /\ bresp.Body = written
    /\ HasPrefix(written, PNGSignature) =>
         /\ ResponseType = CharsImagePNG
         /\ bresp.IsBase64Encoded
         /\ Decoded(bresp.Body).bytes = written
    /\ HasPrefix(written, Big) =>
         /\ ResponseType = CharsTextPlain
         /\ ~bresp.IsBase64Encoded

C25_Witness ==
  /\ Rendered /\ CallsOf("Header") = {}
  /\ written = HTMLDoc \o PNGSignature
  /\ ResponseType = CharsTextHTML
  /\ ~bresp.IsBase64Encoded

Classified == cbin # NoClass
HintFree ==
  /\ HeaderGet(chdr, ContentEncodingKey) = <<>>
  /\ HeaderGet(chdr, XLambdaContentEncodingKey) = <<>>

C28_EnvelopePassThrough ==
  invokeErr # NoErr =>
    /\ IsEnvelope(invokeErr)
    /\ lambdaErrorResponse(invokeErr) = invokeErr
    /\ lambdaPanicResponse(invokeErr) = invokeErr
    /\ hresult = "panic" =>
         /\ invokeErr.ShouldExit
         /\ invokeErr.StackTrace = PanicStack
         /\ invokeErr.Message = hval.text
         /\ invokeErr.Type = TypeNameOf(hval)
    /\ hresult \in {"error", "cancel"} =>
         /\ ~invokeErr.ShouldExit
         /\ invokeErr.StackTrace = <<>>
         /\ invokeErr.Message = hval.text
         /\ invokeErr.Type = TypeNameOf(hval)
    /\ hresult \in {"deadline", "decode"} =>
         /\ ~invokeErr.ShouldExit
         /\ invokeErr.StackTrace = <<>>
C28_Witness ==
  /\ mode = "buffered" /\ hresult = "panic" /\ hval = myError
  /\ invokeErr # NoErr
  /\ invokeErr.ShouldExit /\ invokeErr.Type = "myError"
  /\ lambdaErrorResponse(invokeErr) = invokeErr

\* the entry point has decided; it has polled the control plane
Decided == pc # "start"
HasPolled == lastPoll.n > 0 \/ polled # <<>>

\* C29: ListenAndServe returns an error under AWS_Lambda_go1.x, serves HTTP
\* without AWS_LAMBDA_RUNTIME_API, and otherwise enters the buffered loop for
\* RIDGENATIVE_INVOKE_MODE unset or BUFFERED, the streaming loop for
\* RESPONSE_STREAM, and returns an error for any other value; Start enters
\* the loop of the InvokeMode it is given and returns an error for any
\* other InvokeMode; no error return and no HTTP fallback ever polls.
C29_ModeSelection ==
  Decided =>
    /\ call.fn = "ListenAndServe" =>
         IF env.execEnv = "AWS_Lambda_go1.x" THEN startRet = errGo1x
         ELSE IF env.runtimeAPI = "" THEN startRet = "http"
         ELSE IF env.invokeMode \in {"", "BUFFERED"}
           THEN startRet = "loop" /\ mode = "buffered"
         ELSE IF env.invokeMode = "RESPONSE_STREAM"
           THEN startRet = "loop" /\ mode = "streaming"
         ELSE startRet = errInvalidEnvMode
    /\ call.fn = "Start" =>
         IF call.mode = "BUFFERED" THEN startRet = "loop" /\ mode = "buffered"
         ELSE IF call.mode = "RESPONSE_STREAM" THEN startRet = "loop" /\ mode = "streaming"
         ELSE startRet = errInvalidInvokeMode
    /\ startRet # "loop" => ~HasPolled /\ mode = "none" /\ hcalls = <<>>
    /\ pc = "handler" => hcalls # <<>> /\ startRet = "loop"
C29_Witness ==
  /\ call.fn = "ListenAndServe"
  /\ env.execEnv = "AWS_Lambda_provided.al2" /\ env.invokeMode = "RESPONSE_STREAM"
  /\ startRet = "loop" /\ mode = "streaming"
  /\ pc = "handler" /\ polled = <<1>>

\* the handler function of the current invocation has ended, or was never
\* called because the deadline or the event did not parse
Handled == hresult \notin {"none", "running"}

\* C30: the POST of an invocation goes to its response endpoint exactly
\* when the handler function returned without error (a serialized response,
\* or in streaming mode the started stream), and to its error endpoint
\* when the deadline or the event does not parse or the handler function
\* returns an error or faults; the id in the path is the id of the
\* invocation being handled, never that of an earlier one.
C30_EndpointSelection ==
  /\ \A i \in 1..Len(posts) :
       /\ i <= Len(polled)
       /\ posts[i].id = polled[i]
       /\ posts[i].ep \in {"response", "error"}
  /\ Handled =>
       /\ Len(posts) = Len(polled)
       /\ LastPost.id = invoke.id
       /\ req.path = [id |-> invoke.id, ep |-> LastPost.ep]
       /\ LastPost.ep = "response" <=> hresult \in {"ok", "started"}
       /\ LastPost.ep = "error" <=>
            hresult \in {"deadline", "decode", "error", "panic", "cancel"}
C30_Witness ==
  /\ mode = "buffered"
  /\ Len(posts) = 2
  /\ posts[1].ep = "response" /\ posts[1].id = 1
  /\ posts[2].ep = "error" /\ posts[2].id = 2
  /\ hresult = "decode"

\* the step is a Write of d made when the header block is already written
WriteAfterHeader(d) ==
  /\ rw.wroteHeader
  /\ hops' = Append(hops, Call("Write", d))

\* everything the handler task has given to the pipe, read or not
Piped == Concat(sink.units) \o Concat(outq)

\* C31 as stated: a Write made after the header block hands its bytes to
\* the pipe before it returns, nothing staying behind in the writer.
C31_WriteForwardedAtOnce ==
  [][\A d \in Chunks :
       WriteAfterHeader(d) => (rw'.buf = <<>> /\ Concat(outq') = rw.buf \o d)]_vars

\* C31, amended: a Write made after the header block appends its bytes to
\* the writer's buffer and makes no pipe write while they fit in it; the
\* bytes given to the pipe and those in the buffer are, in order, the
\* header block with its delimiter and every byte written, and the buffer
\* is empty when the handler task has closed the pipe.
C31_WriteBuffered ==
  [][/\ \A d \in Chunks :
          (WriteAfterHeader(d) /\ Len(rw.buf) + Len(d) <= BufSize) =>
             (outq' = <<>> /\ rw'.buf = rw.buf \o d /\ sink' = sink)
     /\ rw.wroteHeader =>
          /\ Len(Piped \o rw.buf) = 9 + Len(written)
          /\ SubSeq(Piped \o rw.buf, 10, 9 + Len(written)) = written
     /\ hpc = "closed" => rw.buf = <<>>]_vars

C31_Witness ==
  /\ Len(hops) = 2 /\ hops[1].op = "WriteHeader" /\ hops[2].op = "Write"
  /\ hpc = "run" /\ outq = <<>>
  /\ Len(sink.units) = 1
  /\ rw.buf = hops[2].data /\ rw.buf # <<>>

\* the handler called WriteHeader before any Write or Flush, and since then
\* nothing but Write
HeaderThenWrites ==
  \E k \in 1..Len(hops) :
    /\ hops[k].op = "WriteHeader"
    /\ \A j \in 1..(k - 1) : hops[j].op = "Header"
    /\ \A j \in (k + 1)..Len(hops) : hops[j].op \in {"Write", "return"}

\* C32: after an explicit WriteHeader the header block with its delimiter
\* is the first unit the sink receives, on its own; the body writes that
\* follow without a Flush reach the sink as one unit when the handler
\* returns, and the end of the stream follows it.
C32_HeaderAloneBodyCoalesced ==
  HeaderThenWrites =>
    /\ sink.units # <<>> => IsHeaderUnit(sink.units[1])
    /\ (hpc = "run" /\ Len(written) <= BufSize) =>
         Len(sink.units) <= 1 /\ (outq = <<>> => Len(sink.units) = 1)
    /\ (sink.ended /\ Len(written) <= BufSize) =>
         /\ hops[Len(hops)].op = "return"
         /\ sink.units = IF written = <<>> THEN <<sink.units[1]>>
                         ELSE <<sink.units[1], written>>

C32_Witness ==
  /\ Len(hops) = 4
  /\ hops[1].op = "WriteHeader" /\ hops[2].op = "Write" /\ hops[3].op = "Write"
  /\ hops[4].op = "return"
  /\ sink.ended
  /\ Len(sink.units) = 2
  /\ sink.units[2] = hops[2].data \o hops[3].data

\* the handler never set a Content-Type
NoExplicitType == \A j \in 1..Len(hops) : hops[j].op # "Header"

\* the bytes of the Write calls among the calls hs
RECURSIVE DataOf(_)
DataOf(hs) ==
  IF hs = <<>> THEN <<>>
  ELSE (IF Head(hs).op = "Write" THEN Head(hs).data ELSE <<>>) \o DataOf(Tail(hs))

\* the calls that write the header block whatever has been written, and
\* the bytes written before the first of them
Freezing(ops) == {j \in 1..Len(hops) : hops[j].op \in ops}
BeforeFreeze(ops) ==
  IF Freezing(ops) = {} THEN written
  ELSE DataOf(SubSeq(hops, 1, (CHOOSE j \in Freezing(ops) : \A i \in Freezing(ops) : j <= i) - 1))

\* what C33 says with ops the calls that freeze the header block: before
\* one of them is made or the prelude is full the bytes written are held
\* back in the prelude and nothing is given to the pipe; from then on the
\* prelude and the Content-Type sniffed from it stay as they are, and the
\* pipe is given the header block with that type, its delimiter and then
\* the bytes written, the prelude first.
FrozenBy(ops) ==
  NoExplicitType =>
    /\ rw.wroteHeader <=> (Freezing(ops) # {} \/ Len(written) >= PreludeCap)
    /\ ~rw.wroteHeader =>
         /\ rw.prelude = written /\ Len(written) < PreludeCap
         /\ Piped = <<>> /\ rw.buf = <<>>
    /\ rw.wroteHeader =>
         /\ rw.prelude = IF Len(BeforeFreeze(ops)) >= PreludeCap
                         THEN SubSeq(written, 1, PreludeCap)
                         ELSE BeforeFreeze(ops)
         /\ rw.header.ct = DetectContentType(rw.prelude)
         /\ LET out == Piped \o rw.buf
            IN /\ Len(out) = 9 + Len(written)
               /\ IsHeaderUnit(SubSeq(out, 1, 9))
               /\ out[1].json.headers.ContentType = rw.header.ct
               /\ SubSeq(out, 10, Len(out)) = written
               /\ Len(Concat(<<Head(sink.units \o outq \o <<rw.buf>>)>>)) >= 9 + Len(rw.prelude)

\* C33 as stated: the header block is frozen by the first explicit
\* WriteHeader, by the prelude being full, or by the handler completing.
C33_FrozenByHeaderOrFull == FrozenBy({"WriteHeader", "return", "panic"})

\* C33, amended: a Flush freezes the header block as well.
C33_FrozenByHeaderFlushOrFull == FrozenBy({"WriteHeader", "Flush", "return", "panic"})

C33_Witness ==
  /\ Len(hops) = 3
  /\ hops[1].op = "Write" /\ hops[1].data = Bytes(<<0, 255>>)
  /\ hops[2].op = "WriteHeader"
  /\ hops[3].op = "Write" /\ hops[3].data = Bytes(<<104, 105>>)
  /\ rw.header.ct = "application/octet-stream"
  /\ rw.prelude = Bytes(<<0, 255>>)
  /\ sink.units = <<<<Block(MarshalStreamingResponse(201, rw.header))>> \o Delimiter
                      \o Bytes(<<0, 255>>)>>

\* what the handler task has produced for the sink, pending bytes included
Produced == Piped \o rw.buf
IsBlock(x) == DOMAIN x = {"json"}

\* nothing is produced before the header block, the delimiter follows it
\* and then the bytes written and nothing else (no second block); a
\* handler task that has ended has produced it, with status 200 when the
\* handler made no call at all
OneHeaderBlock ==
  hpc # "idle" =>
    LET p == Produced
    IN /\ ~rw.wroteHeader => p = <<>>
       /\ rw.wroteHeader => IsBlock(p[1])
       /\ rw.wroteHeader =>
            /\ Len(p) = 9 + Len(written)
            /\ SubSeq(p, 2, 9) = Delimiter
            /\ SubSeq(p, 10, Len(p)) = written
            /\ p[1].json.statusCode = rw.statusCode
       /\ hpc = "closed" => rw.wroteHeader
       /\ (hpc = "closed" /\ Len(hops) = 1) => p[1].json.statusCode = StatusOK

\* once the header block is written no call changes it or the status
HeaderBlockFrozen ==
  (rw.wroteHeader /\ hpc' # "idle") =>
    /\ rw'.wroteHeader
    /\ rw'.statusCode = rw.statusCode
    /\ Produced'[1] = Produced[1]

\* C34: the header block is emitted exactly once per invocation and before
\* any body byte, with status 200 when the handler writes nothing; once it
\* is emitted, WriteHeader calls and changes of the header map change
\* neither the status nor the block and add no block or delimiter.
C34_HeaderBlockOnce ==
  [][OneHeaderBlock /\ OneHeaderBlock' /\ HeaderBlockFrozen]_vars

C34_Witness ==
  /\ Len(hops) = 4
  /\ hops[1].op = "WriteHeader" /\ hops[2].op = "Header" /\ hops[3].op = "WriteHeader"
  /\ hops[4].op = "return"
  /\ sink.ended /\ Len(sink.units) = 1
  /\ rw.header.ct = "application/json"
  /\ sink.units[1][1].json.headers.ContentType = "text/plain; charset=utf-8"

\* the write end of the pipe is closed once: by the one return or panic of
\* the handler task, and a closed pipe keeps its error
ClosedOnce ==
  /\ Cardinality({j \in 1..Len(hops) : hops[j].op \in {"return", "panic"}})
       = IF hpc = "closed" THEN 1 ELSE 0
  /\ pipe.wclosed <=> hpc = "closed"
  /\ (pipe.wclosed /\ hpc' # "idle") => (pipe'.wclosed /\ pipe'.werr = pipe.werr)

\* C35: the handler task closes the pipe exactly once, on return and on
\* panic alike; once it has, the POST side that goes on reading comes to
\* the end of the stream or to the error and the POST ends; when the POST
\* side has closed the pipe no write of the handler task stays pending
\* and a handler that returns still closes its end.
C35_PipeClosedOnce ==
  /\ [][ClosedOnce]_vars
  /\ [](pipe.rclosed => outq = <<>>)
  /\ (hpc = "closed") ~> (pc # "post")
  /\ (pipe.rclosed /\ hpc = "run") ~> (hpc = "closed")

C35_Witness ==
  /\ pipe.rclosed /\ pipe.wclosed /\ hpc = "closed"
  /\ rw.err /\ outq = <<>>
  /\ Len(sink.units) = 1 /\ ~sink.ended
  /\ Len(hops) = 3 /\ hops[2].op = "failed"


\* C36: the version string picks the variant: V2 exactly when it is "2" or
\* starts with "2."; every other value (absent or empty, "1.0", "20") takes
\* the V1 adapter and the V1 renderer; the renderer is the one that belongs
\* to the adapter that built the request.
IsVersion2(v) == v = <<"2">> \/ (Len(v) >= 2 /\ v[1] = "2" /\ v[2] = ".")
AdaptedAsV2 == areq = httpRequestV2(event, <<>>)
AdaptedAsV1 == areq = httpRequestV1(event, <<>>)
C36_VariantByVersion ==
  [][/\ (areq = NoResult /\ areq' # NoResult)
          => /\ event \in VariantEvents
             /\ IF IsVersion2(event.version) THEN AdaptedAsV2' /\ ~AdaptedAsV1'
                ELSE AdaptedAsV1' /\ ~AdaptedAsV2'
     /\ (bresp = NoResponse /\ bresp' # NoResponse)
          => /\ AdaptedAsV2 <=> IsVersion2(event.version)
             /\ bresp' = IF AdaptedAsV2 THEN lambdaResponseV2(brw).response
                         ELSE lambdaResponseV1(brw).response]_vars
C36_Witness ==
  /\ event \in VariantEvents /\ event.version = <<"2", "0">>
  /\ AdaptedAsV1
  /\ bresp # NoResponse
  /\ bresp = lambdaResponseV1(brw).response
  /\ Len(written) > 0
  /\ bresp # lambdaResponseV2(brw).response


\* C37: the buffers kept between invocations do not show: the event
\* lambdaHandler gets in invocation N is the body of the N-th poll response,
\* the request body the handler reads is that event's decoded body, and the
\* rendered body holds exactly the bytes written in invocation N.
ExpectedBody(e) ==
  IF e.isBase64Encoded THEN DecodeString(e.body).bytes ELSE StringOf(e.body)
\* the bytes a padded base64 text stands for, read off by position
BytesOfText(text) ==
  LET n   == Len(text)
      pad == (IF n > 0 /\ text[n] = "=" THEN 1 ELSE 0)
               + (IF n > 1 /\ text[n - 1] = "=" THEN 1 ELSE 0)
  IN [i \in 1..((n \div 4) * 3 - pad) |->
        LET q  == 4 * ((i - 1) \div 3)
            v1 == B64Val(text[q + 1])
            v2 == B64Val(text[q + 2])
            v3 == B64Val(text[q + 3])
            v4 == B64Val(text[q + 4])
        IN CASE (i - 1) % 3 = 0 -> Byte((v1 * 4 + (v2 \div 16)) % 256)
             [] (i - 1) % 3 = 1 -> Byte(((v2 % 16) * 16 + (v3 \div 4)) % 256)
             [] OTHER -> Byte(((v3 % 4) * 64 + v4) % 256)]
RenderedBytes(r) ==
  IF r.IsBase64Encoded THEN BytesOfText(TextOf(r.Body)) ELSE r.Body
C37_BufferReuseInvisible ==
  /\ serve.phase = "handler" \/ serve.rendered \/ serve.failed
       => /\ Len(serve.doc) = 1
          /\ event = serve.doc[1]
  /\ serve.failed => ~DecodeString(event.body).ok
  /\ serve.didRead => serve.read = ExpectedBody(event)
  /\ serve.rendered => RenderedBytes(bresp) = written
C37_Witness ==
  /\ serve.n = 2 /\ serve.rendered /\ serve.didRead
  /\ event.isBase64Encoded /\ Len(serve.read) = 1
  /\ Len(fbuf.out) > EncodedLen(Len(written))
  /\ bresp.IsBase64Encoded /\ written = PNGSignature

\* C38: with the header operations all made before the first write, the
\* rendered response is the one a single Write of the same bytes gives,
\* however the bytes were split, and every Write returns the length of its
\* data.
OneWrite ==
  LET r == WriteShared(serve.first.f, serve.first.rw, written)
  IN IF isV2Request(event) THEN lambdaResponseV2Shared(r.f, r.rw).response
     ELSE lambdaResponseV1Shared(r.f, r.rw).response
C38_ChunkingIndependent ==
  /\ \A i \in 1..Len(hops) : hops[i].op = "Write" => hops[i].data[1] = hops[i].data[2]
  /\ serve.rendered /\ serve.first.set /\ ~serve.late => bresp = OneWrite
C38_Witness ==
  /\ serve.rendered /\ ~serve.late
  /\ Len(hops) = 2 /\ written = PNGSignature \o Big
  /\ serve.first.rw.header = <<>>
  /\ bresp.IsBase64Encoded


\* C39: the result POST runs under the loop's scope, not under the
\* deadline-bound scope of the handler: a report in flight is never cut off
\* by the invocation's deadline, and the control plane can accept it even
\* when the deadline had passed before the handler returned.
C39_PostUnderLoopScope ==
  pc = "post"
    => /\ posts # <<>> /\ posts[Len(posts)].result = "inflight"
       /\ ~ScopeDone(req.scope)
       /\ [err |-> FALSE, status |-> StatusAccepted] \in DoAnswers
C39_Witness ==
  /\ hresult = "cancel"
  /\ child.deadline <= now
  /\ posts # <<>> /\ posts[Len(posts)].result = "accepted"
  /\ posts[Len(posts)].ep = "error"
  /\ ret = "nil"


\* C40: a result POST (response or error, buffered or streamed) that the
\* control plane answers with a status other than 202, or that fails at
\* transport level, makes the handle operation return an error, and the loop
\* returns it without another poll, whatever the handler did.
Unaccepted(ps) == ps # <<>> /\ ps[Len(ps)].result \in {"rejected", "failed"}
C40_UnacceptedPostEndsLoop ==
  [][/\ (pc = "post" /\ pc' # "post")
          => /\ posts' # <<>>
             /\ IF Unaccepted(posts')
                THEN ret' = "err" /\ pc' = "exit" /\ loopErr' = "handle"
                ELSE posts'[Len(posts')].result = "accepted"
     /\ Unaccepted(posts)
          => pc = "exit" /\ pc' = "exit" /\ polled' = polled /\ posts' = posts
               /\ hcalls' = hcalls]_vars
C40_Witness ==
  /\ pc = "exit" /\ ret = "err" /\ loopErr = "handle"
  /\ hresult = "ok"
  /\ posts # <<>> /\ posts[Len(posts)].result = "rejected"
  /\ posts[Len(posts)].ep = "response"
  /\ Len(polled) = Len(posts)

=============================================================================
